---- MODULE Spec2Model ----
(***************************************************************************)
(* The on-chain analytics service of the BlockCoop admin dashboard         *)
(* (src/admin/services/blockchain_service.py, class BlockchainDataService) *)
(* as a state machine.  The ledger (event logs, blocks, contract state)    *)
(* is the environment, fixed by Init; every public method of the service   *)
(* is one action, which draws its arguments and the set of remote calls    *)
(* failing during the call, computes the whole method and records the      *)
(* call in `last`.                                                         *)
(*                                                                         *)
(* Conventions.  Python's None for an optional block number is None (-1).  *)
(* A Python exception is the value Raise; Ok(v) is a normal return.  A     *)
(* float obtained as raw / 10**decimals is the exact decimal               *)
(* [m |-> mantissa, e |-> exponent] (m * 10^-e, trailing zeros stripped): *)
(* the rounding of binary floating point is not modelled.  A log's data    *)
(* payload is its sequence of bytes ("0x" is the empty sequence), so the   *)
(* slice data_hex[2:66] is the first 32 bytes.  A 32-byte topic word is    *)
(* [hi |-> upper 12 bytes, lo |-> lower 20 bytes].  keccak is an opaque    *)
(* injective map from signatures to words.                                 *)
(***************************************************************************)
EXTENDS Integers, Sequences, FiniteSets, TLC

VARIABLES
    logs,        \* the ledger's event logs, in block order
    latest,      \* the ledger's latest block number
    tokenDec,    \* decimals() of the usdt and blocksToken contracts
    catalog,     \* the package-manager's package state
    pool,        \* the BLOCKS/USDT pair contract's state and the pair override
    blocks,      \* transactions and receipts by block number
    chain,       \* chain id, gas price, token supplies and balances, vesting
    contracts,   \* self.contracts: name -> address string
    last,        \* the most recent call: method, arguments, return, remote calls
    prev,        \* the get_packages_stats call before `last`, or NoCall
    bot,         \* the buyer bot: its position in main(), backoff, wallet view
    db           \* the admin application's users and payment transactions

vars == <<logs, latest, tokenDec, catalog, pool, blocks, chain, contracts, last, prev, bot, db>>

\* what a call of the analytics service leaves alone, besides prev
env == <<logs, latest, tokenDec, catalog, pool, blocks, chain, contracts, bot, db>>

\* the analytics service and what it reads
analytics == <<logs, latest, tokenDec, catalog, pool, blocks, chain, contracts, last, prev>>

(***************************************************************************)
(* Bounds of the model.                                                    *)
(***************************************************************************)
MaxLogs == 2

MaxDec == 2

MaxLedger == 3

MaxReserve == 2

MaxRaw == 3

MaxPackages == 3

MaxBlock == 3

MaxGas == 2

(***************************************************************************)
(* Python values.                                                          *)
(***************************************************************************)
None == -1

Raise == [ok |-> FALSE]

Ok(v) == [ok |-> TRUE, v |-> v]

ErrorDict == [error |-> "str(e)"]

\* try: ... except Exception: return fallback.  r is the outcome of the try
\* block; the fields a raising block leaves besides ok are kept for the record
Except(r, fallback) ==
    IF r.ok THEN r @@ [caught |-> FALSE]
    ELSE [ok |-> TRUE, v |-> fallback, caught |-> TRUE] @@ r

NoCall == [op |-> "none"]

\* Optional values that are not block numbers
Absent == [none |-> TRUE]

Some(x) == [none |-> FALSE, x |-> x]

Min(a, b) == IF a < b THEN a ELSE b

Max(a, b) == IF a > b THEN a ELSE b

RECURSIVE Pow10(_)
Pow10(n) == IF n = 0 THEN 1 ELSE 10 * Pow10(n - 1)

Take(s, n) == SubSeq(s, 1, Min(n, Len(s)))

(***************************************************************************)
(* Decimal quantities: raw / 10**decimals.                                 *)
(***************************************************************************)
RECURSIVE Canon(_)
Canon(x) ==
    IF x.m = 0 THEN [m |-> 0, e |-> 0]
    ELSE IF x.e > 0 /\ x.m % 10 = 0 THEN Canon([m |-> x.m \div 10, e |-> x.e - 1])
    ELSE x

DecZero == [m |-> 0, e |-> 0]

\* amount / float(10 ** decimals)
DivPow10(amount, decimals) == Canon([m |-> amount, e |-> decimals])

DecAdd(x, y) ==
    IF x.m = 0 THEN Canon(y)
    ELSE IF y.m = 0 THEN Canon(x)
    ELSE LET E == Max(x.e, y.e)
         IN  Canon([m |-> x.m * Pow10(E - x.e) + y.m * Pow10(E - y.e), e |-> E])

RECURSIVE GCD(_, _)
GCD(a, b) == IF b = 0 THEN a ELSE GCD(b, a % b)

\* x / y for decimals x and y # 0: the reduced fraction num / den
DecDiv(x, y) ==
    LET n == x.m * Pow10(y.e)
        d == y.m * Pow10(x.e)
        g == GCD(n, d)
    IN  [num |-> n \div g, den |-> d \div g]

\* total / n for a count n > 0: the decimal (num * 10^-e) over den, reduced
DecOver(x, n) ==
    LET g == GCD(x.m, n)
    IN  [num |-> x.m \div g, den |-> n \div g, e |-> x.e]

(***************************************************************************)
(* Addresses, words and payloads.                                          *)
(***************************************************************************)
\* An address string is [id, form]: form "cs" is the EIP-55 checksummed
\* spelling, "lc" the lower-case one, "hex" a hex string that is not 20 bytes
\* long, "bad" a string that is no hex, "none" None or the empty string.
Addr(i) == [id |-> i, form |-> "cs"]

AddrLc(i) == [id |-> i, form |-> "lc"]

BadAddr == [id |-> 0, form |-> "bad"]

NoAddr == [id |-> 0, form |-> "none"]

\* Web3.to_checksum_address
to_checksum_address(a) ==
    IF a.form \in {"cs", "lc"} THEN Ok(Addr(a.id)) ELSE Raise

Truthy(a) == a.form # "none"

\* addresses that are none of the configured contracts
Wallet(i) == 10 + i

PM == 1
TREASURY == 2
USDT == 3
BLOCKS == 4
FACTORY == 9

\* a token that is neither BLOCKS nor USDT, and the two pair contracts
WBNB == Wallet(3)

PAIR == Wallet(4)

PAIR_BNB == Wallet(5)

VAULT == Wallet(6)

MARKET == Wallet(7)

ALICE == Wallet(1)

BOB == Wallet(2)

ZeroWord == [hi |-> 0, lo |-> 0]

\* the 32-byte word of an ABI-encoded address or small unsigned integer
WordOf(n) == [hi |-> 0, lo |-> n]

\* int(word.hex(), 16), for the words of this model (upper 12 bytes zero)
WordToInt(w) == w.lo

\* a slip: the first 40 hex digits of the word instead of the last 40
AddrOfWordHead(w) == AddrLc(w.hi)

\* '0x' + word.hex()[-40:]
AddrOfWord(w) == AddrLc(w.lo)

\* self.w3.keccak(text=signature).hex()
Keccak(signature) ==
    CASE signature = "Purchased(address,uint256,uint256,uint256,uint256,uint256,uint256,address,uint256)"
            -> [hi |-> 101, lo |-> 0]
      [] signature = "ReferralPaid(address,address,uint256)" -> [hi |-> 102, lo |-> 0]
      [] signature = "TaxApplied(bytes32,uint256,address)" -> [hi |-> 103, lo |-> 0]
      [] signature = "Transfer(address,address,uint256)" -> [hi |-> 104, lo |-> 0]
      [] signature = "Swap(address,uint256,uint256,uint256,uint256,address)"
            -> [hi |-> 105, lo |-> 0]
      [] OTHER -> [hi |-> 199, lo |-> 0]

RECURSIVE BytesToInt(_)
BytesToInt(bs) ==
    IF bs = <<>> THEN 0 ELSE 256 * BytesToInt(SubSeq(bs, 1, Len(bs) - 1)) + bs[Len(bs)]

\* the 32-byte big-endian word of n < 2^32
Word32(n) ==
    [i \in 1..32 |->
        IF i = 32 THEN n % 256
        ELSE IF i = 31 THEN (n \div 256) % 256
        ELSE IF i = 30 THEN (n \div 65536) % 256
        ELSE IF i = 29 THEN (n \div 16777216) % 256
        ELSE 0]

\* int(data_hex[2:66], 16)
FirstWord(data) == BytesToInt(Take(data, 32))

(***************************************************************************)
(* The ledger node and the bound contracts.                                *)
(***************************************************************************)
\* names with an ABI (abi_files), the only ones _initialize_contracts binds
AbiNames == {"packageManager", "blocksToken", "usdt", "vestingVault"}

\* the keys of self.contracts, in the order of the fallback table
ContractNames ==
    <<"packageManager", "blocksToken", "usdt", "vestingVault", "secondaryMarket",
      "treasury", "factory">>

\* a slip: one try around the whole loop, so that the first name that fails
\* ends it
RECURSIVE initialize_contracts_aborting(_)
initialize_contracts_aborting(names) ==
    IF names = <<>> THEN {}
    ELSE LET contract_name == Head(names)
         IN  IF contract_name \notin DOMAIN contracts
             THEN initialize_contracts_aborting(Tail(names))
             ELSE IF contract_name \notin AbiNames
             THEN initialize_contracts_aborting(Tail(names))
             ELSE IF to_checksum_address(contracts[contract_name]).ok
             THEN {contract_name} \cup initialize_contracts_aborting(Tail(names))
             ELSE {}

\* the loop of _initialize_contracts over self.contracts.items(): a name
\* whose binding raises is left out
RECURSIVE initialize_contracts(_)
initialize_contracts(names) ==
    IF names = <<>> THEN {}
    ELSE LET contract_name == Head(names)
             rest == initialize_contracts(Tail(names))
         IN  IF contract_name \in DOMAIN contracts /\ contract_name \in AbiNames
                /\ to_checksum_address(contracts[contract_name]).ok
             THEN {contract_name} \cup rest
             ELSE rest

\* self.contract_instances: the names bound to a contract
contract_instances == initialize_contracts(ContractNames)

\* eth_getLogs: the logs of `address` in [fromBlock, toBlock] whose leading
\* topics equal `topics`; a null toBlock is the open bound.  `site` names the
\* call site; the call raises when the site is among the failing calls f.
MatchesFilter(lg, address, topics, fromBlock, toBlock) ==
    /\ lg.address = address.id
    /\ Len(lg.topics) >= Len(topics)
    /\ \A i \in 1..Len(topics) : lg.topics[i] = topics[i]
    /\ lg.blockNumber >= fromBlock
    /\ (toBlock = None \/ lg.blockNumber <= toBlock)

get_logs(f, site, address, topics, fromBlock, toBlock) ==
    IF site \in f THEN Raise
    ELSE Ok(SelectSeq(logs, LAMBDA lg : MatchesFilter(lg, address, topics, fromBlock, toBlock)))

\* one entry of a call's record of the log queries it issued; n is the
\* number of logs returned, None when the query raised
Query(fromBlock, toBlock, r) ==
    [fromBlock |-> fromBlock, toBlock |-> toBlock, n |-> IF r.ok THEN Len(r.v) ELSE None]

\* usdt_dec = 18; try: contract_instances[name].functions.decimals().call()
DecimalsOr18(f, name) ==
    IF name \in contract_instances /\ (name \o ".decimals") \notin f
    THEN tokenDec[name] ELSE 18

(***************************************************************************)
(* Node status, token reads and the comprehensive statistics.              *)
(***************************************************************************)
\* dict.get(key, default)
Get(d, key, default) == IF key \in DOMAIN d THEN d[key] ELSE default

\* self.w3.is_connected(): False when the node does not answer; it may raise
w3_is_connected(f) ==
    IF "is_connected.raise" \in f THEN Raise ELSE Ok("is_connected" \notin f)

is_connected(f) == Except(w3_is_connected(f), FALSE)

\* self.w3.eth.block_number
block_number(f) == IF "block_number" \in f THEN Raise ELSE Ok(latest)

get_latest_block(f) == Except(block_number(f), None)

\* the addresses that hold an ERC-20 contract
TokenIds == {USDT, BLOCKS, WBNB}

\* decimals() and symbol() of the token contract at an address
DecimalsAt(id) ==
    IF id = USDT THEN tokenDec.usdt
    ELSE IF id = BLOCKS THEN tokenDec.blocksToken
    ELSE 18

SymbolAt(id) ==
    IF id = USDT THEN "USDT" ELSE IF id = BLOCKS THEN "BLOCKS" ELSE "WBNB"

\* contract.functions.<fn>().call() on the ERC-20 bound to address a; web3
\* takes only checksummed addresses as arguments
Erc20Call(a, fn, arg, site, f) ==
    IF site \in f \/ a.form # "cs" \/ a.id \notin TokenIds THEN Raise
    ELSE IF fn = "symbol" THEN Ok(SymbolAt(a.id))
    ELSE IF fn = "decimals" THEN Ok(DecimalsAt(a.id))
    ELSE IF fn = "totalSupply" THEN Ok(Get(chain.totalSupply, a.id, 0))
    ELSE IF arg.form # "cs" THEN Raise
    ELSE Ok(Get(Get(chain.balanceOf, a.id, <<>>), arg.id, 0))

get_token_info_body(token_address, f) ==
    LET cs == to_checksum_address(token_address)
    IN  IF ~cs.ok THEN Raise
        ELSE
        LET symbol == Erc20Call(cs.v, "symbol", NoAddr, "symbol", f)
            decimals == Erc20Call(cs.v, "decimals", NoAddr, "decimals", f)
            totalSupply == Erc20Call(cs.v, "totalSupply", NoAddr, "totalSupply", f)
        IN  IF ~symbol.ok \/ ~decimals.ok \/ ~totalSupply.ok THEN Raise
            ELSE Ok([address |-> token_address, symbol |-> symbol.v,
                     decimals |-> decimals.v, totalSupply |-> totalSupply.v])

get_token_info(token_address, f) == Except(get_token_info_body(token_address, f), ErrorDict)

\* the try block shared by get_blocks_token_stats and get_usdt_stats
token_stats_body(name, unavailable, f) ==
    IF name \notin contract_instances THEN Ok([error |-> unavailable])
    ELSE
    LET a == to_checksum_address(contracts[name]).v
        totalSupply == Erc20Call(a, "totalSupply", NoAddr, name \o ".totalSupply", f)
        decimals == Erc20Call(a, "decimals", NoAddr, name \o ".decimals", f)
        symbol == Erc20Call(a, "symbol", NoAddr, name \o ".symbol", f)
    IN  IF ~totalSupply.ok \/ ~decimals.ok \/ ~symbol.ok THEN Raise
        ELSE Ok([address |-> contracts[name], totalSupply |-> totalSupply.v,
                 decimals |-> decimals.v, symbol |-> symbol.v])

get_blocks_token_stats(f) ==
    Except(token_stats_body("blocksToken", "BLOCKS token contract not available", f), ErrorDict)

get_usdt_stats(f) ==
    Except(token_stats_body("usdt", "USDT contract not available", f), ErrorDict)

\* self.w3.eth.get_balance(address)
get_balance(a, f) ==
    IF "get_balance" \in f \/ a.form # "cs" THEN Raise ELSE Ok(Get(chain.balance, a.id, 0))

get_treasury_balance_body(f) ==
    LET treasury_address == contracts.treasury
        has_blocks == "blocksToken" \in contract_instances
        has_usdt == "usdt" \in contract_instances
        blocks_balance ==
            IF has_blocks
            THEN Erc20Call(to_checksum_address(contracts.blocksToken).v, "balanceOf",
                           treasury_address, "blocksToken.balanceOf", f)
            ELSE Ok(0)
        usdt_balance ==
            IF has_usdt
            THEN Erc20Call(to_checksum_address(contracts.usdt).v, "balanceOf",
                           treasury_address, "usdt.balanceOf", f)
            ELSE Ok(0)
        bnb_balance == get_balance(treasury_address, f)
    IN  IF ~blocks_balance.ok \/ ~usdt_balance.ok \/ ~bnb_balance.ok THEN Raise
        ELSE Ok([address |-> treasury_address,
                 balances |-> (IF has_blocks THEN [blocks |-> blocks_balance.v] ELSE <<>>)
                              @@ (IF has_usdt THEN [usdt |-> usdt_balance.v] ELSE <<>>)
                              @@ [bnb |-> bnb_balance.v]])

get_treasury_balance(f) == Except(get_treasury_balance_body(f), ErrorDict)

get_network_info_body(f) ==
    LET latestBlock == block_number(f)
        isConnected == w3_is_connected(f)
    IN  IF "chain_id" \in f \/ ~latestBlock.ok \/ "gas_price" \in f \/ ~isConnected.ok
        THEN Raise
        ELSE Ok([chainId |-> chain.chainId, networkName |-> "BSC Mainnet",
                 latestBlock |-> latestBlock.v, gasPrice |-> chain.gasPrice,
                 isConnected |-> isConnected.v])

get_network_info(f) == Except(get_network_info_body(f), ErrorDict)

(***************************************************************************)
(* Price discovery: _get_blocks_usdt_price                                 *)
(***************************************************************************)
\* a slip: in the second orientation each reserve divided by the other
\* token's decimals
PriceFromCrossed(token0, token1, reserve0, reserve1, dec0, dec1, blocks_addr, usdt_addr) ==
    IF token0 = blocks_addr /\ token1 = usdt_addr
    THEN LET blocks_r == DivPow10(reserve0, dec0)
             usdt_r == DivPow10(reserve1, dec1)
         IN  IF blocks_r.m > 0 THEN Some(DecDiv(usdt_r, blocks_r)) ELSE Absent
    ELSE IF token1 = blocks_addr /\ token0 = usdt_addr
    THEN LET blocks_r == DivPow10(reserve1, dec0)
             usdt_r == DivPow10(reserve0, dec1)
         IN  IF blocks_r.m > 0 THEN Some(DecDiv(usdt_r, blocks_r)) ELSE Absent
    ELSE Absent

\* the orientation test and the division
PriceFrom(token0, token1, reserve0, reserve1, dec0, dec1, blocks_addr, usdt_addr) ==
    IF token0 = blocks_addr /\ token1 = usdt_addr
    THEN LET blocks_r == DivPow10(reserve0, dec0)
             usdt_r == DivPow10(reserve1, dec1)
         IN  IF blocks_r.m > 0 THEN Some(DecDiv(usdt_r, blocks_r)) ELSE Absent
    ELSE IF token1 = blocks_addr /\ token0 = usdt_addr
    THEN LET blocks_r == DivPow10(reserve1, dec1)
             usdt_r == DivPow10(reserve0, dec0)
         IN  IF blocks_r.m > 0 THEN Some(DecDiv(usdt_r, blocks_r)) ELSE Absent
    ELSE Absent

\* factory.getPair(blocks, usdt): Ok(pair address string) or Raise
FactoryGetPair(f) ==
    LET factory_c == to_checksum_address(contracts.factory)
        blocks_c == to_checksum_address(contracts.blocksToken)
        usdt_c == to_checksum_address(contracts.usdt)
    IN  IF ~factory_c.ok \/ ~blocks_c.ok \/ ~usdt_c.ok \/ "getPair" \in f
           \/ factory_c.v.id # FACTORY
        THEN Raise
        ELSE Ok(Addr(pool.getPair))

\* the reads of a pair contract: token0(), token1(), getReserves()
ReadPair(pair_address, f) ==
    LET pair_c == to_checksum_address(pair_address)
    IN  IF ~pair_c.ok \/ pair_c.v.id \notin DOMAIN pool.pairs
           \/ f \cap {"token0", "token1", "getReserves"} # {}
        THEN Raise
        ELSE Ok(pool.pairs[pair_c.v.id])

get_blocks_usdt_price_body(f) ==
    LET override == pool.override
        blocks_c == to_checksum_address(contracts.blocksToken)
        usdt_c == to_checksum_address(contracts.usdt)
        derived == IF Truthy(override) THEN Ok(override)
                   ELSE IF ~blocks_c.ok \/ ~usdt_c.ok THEN Raise
                   ELSE IF Truthy(contracts.factory) THEN FactoryGetPair(f)
                   ELSE Ok(NoAddr)
    IN  IF ~derived.ok THEN Raise
        ELSE IF ~Truthy(override) /\ Truthy(contracts.factory) /\ derived.v.id = 0
        THEN Ok(Absent)
        ELSE
        LET pr == ReadPair(derived.v, f)
        IN  IF ~pr.ok \/ ~blocks_c.ok \/ ~usdt_c.ok \/ f \cap {"decimals0", "decimals1"} # {}
            THEN Raise
            ELSE Ok(PriceFrom(Addr(pr.v.token0), Addr(pr.v.token1),
                              pr.v.reserve0, pr.v.reserve1,
                              DecimalsAt(pr.v.token0), DecimalsAt(pr.v.token1),
                              blocks_c.v, usdt_c.v))

get_blocks_usdt_price(f) == Except(get_blocks_usdt_price_body(f), Absent)

(***************************************************************************)
(* Liquidity: get_liquidity_stats                                          *)
(***************************************************************************)
Blocks24h == 28800

\* a slip: one decimal place too many
normalize_amount_shifted(amount, decimals) == Canon([m |-> amount, e |-> decimals + 1])

\* try: float(amount) / float(10 ** decimals); except Exception: 0.0 (a
\* decimals that is no number raises)
normalize_amount(amount, decimals) ==
    IF decimals = None THEN DecZero ELSE DivPow10(amount, decimals)

\* 2.0 * x
DecDouble(x) == Canon([m |-> 2 * x.m, e |-> x.e])

get_token_meta_body(address, f) ==
    LET cs == to_checksum_address(address)
        symbol == IF cs.ok THEN Erc20Call(cs.v, "symbol", NoAddr, "symbol", f) ELSE Raise
        decimals == IF cs.ok THEN Erc20Call(cs.v, "decimals", NoAddr, "decimals", f) ELSE Raise
    IN  IF symbol.ok /\ decimals.ok
        THEN Ok([address |-> cs.v, symbol |-> symbol.v, decimals |-> decimals.v])
        ELSE Raise

\* a slip: the fallback record without its error entry
TokenMetaUnmarked(address) == [address |-> address, symbol |-> "?", decimals |-> 18]

\* the record of the except clause
TokenMetaFallback(address) ==
    [address |-> address, symbol |-> "?", decimals |-> 18, error |-> "str(e)"]

get_token_meta_call(address, f) ==
    Except(get_token_meta_body(address, f), TokenMetaFallback(address))

get_token_meta(address, f) == get_token_meta_call(address, f).v

\* a slip: the stable reserve itself, not doubled
TvlUsdSingle(t0, t1, norm0, norm1) ==
    IF t0.symbol = "USDT" THEN norm0
    ELSE IF t1.symbol = "USDT" THEN norm1
    ELSE DecZero

\* tvl_usd: 2 * USDT reserve if USDT is in the pair
TvlUsd(t0, t1, norm0, norm1) ==
    IF t0.symbol = "USDT" THEN DecDouble(norm0)
    ELSE IF t1.symbol = "USDT" THEN DecDouble(norm1)
    ELSE DecZero

\* chunks = [int(hex_data[i:i+64], 16) for i in range(0, min(len(hex_data), 64*4), 64)]
Chunks(data) ==
    LET n == (Min(Len(data), 128) + 31) \div 32
    IN  [i \in 1..n |-> BytesToInt(SubSeq(data, 32 * (i - 1) + 1, Min(32 * i, Len(data))))]

\* the loop over the Swap logs of a pair: the USDT amounts in and out
RECURSIVE FoldSwaps(_, _, _, _)
FoldSwaps(vol_usd, lgs, t0, t1) ==
    IF lgs = <<>> THEN vol_usd
    ELSE LET data == Head(lgs).data
             chunks == Chunks(data)
         IN  IF data = <<>> \/ Len(chunks) < 4 THEN FoldSwaps(vol_usd, Tail(lgs), t0, t1)
             ELSE LET usdt_in == (IF t0.symbol = "USDT" THEN chunks[1] ELSE 0)
                                 + (IF t1.symbol = "USDT" THEN chunks[2] ELSE 0)
                      usdt_out == (IF t0.symbol = "USDT" THEN chunks[3] ELSE 0)
                                  + (IF t1.symbol = "USDT" THEN chunks[4] ELSE 0)
                      usdt_decimals == IF t0.symbol = "USDT" THEN t0.decimals
                                       ELSE IF t1.symbol = "USDT" THEN t1.decimals ELSE 18
                  IN  FoldSwaps(DecAdd(vol_usd, normalize_amount(usdt_in + usdt_out, usdt_decimals)),
                                Tail(lgs), t0, t1)

compute_pool_stats(pair_address, label, latest_block, from_block, to_block, f) ==
    LET pr == ReadPair(pair_address, f)
    IN  IF ~pr.ok THEN Raise
        ELSE
        LET t0 == get_token_meta(Addr(pr.v.token0), f)
            t1 == get_token_meta(Addr(pr.v.token1), f)
            norm0 == normalize_amount(pr.v.reserve0, t0.decimals)
            norm1 == normalize_amount(pr.v.reserve1, t1.decimals)
            tvl_usd == TvlUsd(t0, t1, norm0, norm1)
            swaps == IF latest_block = None THEN Ok(<<>>)
                     ELSE get_logs(f, "swap.get_logs", to_checksum_address(pair_address).v,
                                   <<Keccak("Swap(address,uint256,uint256,uint256,uint256,address)")>>,
                                   from_block, to_block)
            vol_usd == IF swaps.ok THEN FoldSwaps(DecZero, swaps.v, t0, t1) ELSE DecZero
        IN  Ok([label |-> label, address |-> to_checksum_address(pair_address).v,
                token0 |-> [symbol |-> t0.symbol, address |-> t0.address,
                            decimals |-> t0.decimals, reserve |-> norm0],
                token1 |-> [symbol |-> t1.symbol, address |-> t1.address,
                            decimals |-> t1.decimals, reserve |-> norm1],
                tvl_usd |-> tvl_usd, volume24h_usd |-> vol_usd])

\* a slip: the factory asked first, the override used only without its answer
ResolveUsdtPairFactoryFirst(f) ==
    LET derived_pair == FactoryGetPair(f)
    IN  IF Truthy(contracts.factory) /\ derived_pair.ok
        THEN (IF derived_pair.v.id # 0 THEN derived_pair.v ELSE NoAddr)
        ELSE pool.override

\* pair_usdt: the override, else the factory's pair unless it is the zero
\* address or the lookup raises
ResolveUsdtPair(f) ==
    IF Truthy(pool.override) THEN pool.override
    ELSE IF ~Truthy(contracts.factory) THEN NoAddr
    ELSE LET derived_pair == FactoryGetPair(f)
         IN  IF derived_pair.ok /\ derived_pair.v.id # 0 THEN derived_pair.v ELSE NoAddr

\* a slip: the BNB pool's figures added like the USDT pool's
LiquidityTotalsAllPools(usdt_info, bnb_info) ==
    [total_liquidity_usd |->
        DecAdd(IF usdt_info.ok THEN usdt_info.v.tvl_usd ELSE DecZero,
               IF bnb_info.ok THEN bnb_info.v.tvl_usd ELSE DecZero),
     daily_volume_usd |->
        DecAdd(IF usdt_info.ok THEN usdt_info.v.volume24h_usd ELSE DecZero,
               IF bnb_info.ok THEN bnb_info.v.volume24h_usd ELSE DecZero)]

\* total_liquidity_usd and daily_volume_usd: only the USDT pool is added
LiquidityTotals(usdt_info, bnb_info) ==
    [total_liquidity_usd |-> IF usdt_info.ok THEN usdt_info.v.tvl_usd ELSE DecZero,
     daily_volume_usd |-> IF usdt_info.ok THEN usdt_info.v.volume24h_usd ELSE DecZero]

get_liquidity_stats_body(f) ==
    LET connected == is_connected(f).v
        head == IF connected THEN block_number(f) ELSE Ok(None)
    IN  IF ~head.ok THEN Raise
        ELSE
        LET latest_block == head.v
            from_block == IF latest_block # None THEN Max(0, latest_block - Blocks24h) ELSE 0
            to_block == IF latest_block = None \/ latest_block = 0 THEN None ELSE latest_block
            pair_usdt == ResolveUsdtPair(f)
            pair_bnb == pool.bnb_override
            usdt_info == IF Truthy(pair_usdt)
                         THEN compute_pool_stats(pair_usdt, "BLOCKS/USDT", latest_block,
                                                 from_block, to_block, f)
                         ELSE Raise
            bnb_info == IF Truthy(pair_bnb)
                        THEN compute_pool_stats(pair_bnb, "BLOCKS/BNB", latest_block,
                                                from_block, to_block, f)
                        ELSE Raise
            pools == (IF usdt_info.ok THEN <<usdt_info.v>> ELSE <<>>)
                     \o (IF bnb_info.ok THEN <<bnb_info.v>> ELSE <<>>)
            totals == LiquidityTotals(usdt_info, bnb_info)
        IN  Ok([total_liquidity_usd |-> totals.total_liquidity_usd,
                active_pools |-> Len(pools),
                daily_volume_usd |-> totals.daily_volume_usd,
                pools |-> pools, from_block |-> from_block, to_block |-> latest_block])

get_liquidity_stats(f) == Except(get_liquidity_stats_body(f), ErrorDict)

(***************************************************************************)
(* get_comprehensive_stats                                                 *)
(***************************************************************************)
get_comprehensive_stats_body(f) ==
    LET price == get_blocks_usdt_price(f).v
    IN  Ok([network |-> get_network_info(f).v,
            blocksToken |-> get_blocks_token_stats(f).v,
            usdt |-> get_usdt_stats(f).v,
            treasury |-> get_treasury_balance(f).v,
            market |-> [blocksPriceUsd |-> price, volume24hUsd |-> None],
            timestamp |-> "utcnow"])

get_comprehensive_stats(f) == Except(get_comprehensive_stats_body(f), ErrorDict)

(***************************************************************************)
(* get_all_packages                                                        *)
(***************************************************************************)
RECURSIVE ReadPackages(_, _, _)
ReadPackages(ids, active_only, f) ==
    IF ids = <<>> THEN <<>>
    ELSE LET pid == Head(ids)
             rest == ReadPackages(Tail(ids), active_only, f)
         IN  IF pid \notin DOMAIN catalog.pkgs \/ ~catalog.pkgs[pid].readable
                \/ "getPackage" \in f
             THEN rest
             ELSE LET pkg == catalog.pkgs[pid]
                  IN  IF ~pkg.exists THEN rest
                      ELSE IF active_only /\ ~pkg.active THEN rest
                      ELSE <<[packageId |-> pid, active |-> pkg.active,
                              exists |-> pkg.exists]>> \o rest

\* a slip: the ids always scanned, the accessor never asked
get_all_packages_scanning(active_only, f) ==
    IF ~to_checksum_address(contracts.packageManager).ok
       \/ to_checksum_address(contracts.packageManager).v.id # PM
       \/ "nextPackageId" \in f
    THEN Ok(<<>>)
    ELSE Ok(ReadPackages([i \in 1..catalog.nextPackageId |-> i - 1], active_only, f))

get_all_packages_body(active_only, f) ==
    LET pm_addr == contracts.packageManager
    IN  IF ~Truthy(pm_addr) THEN Ok(<<>>)
        ELSE IF ~to_checksum_address(pm_addr).ok THEN Raise
        ELSE LET deployed == to_checksum_address(pm_addr).v.id = PM
                 preferred == IF "getActivePackageIds" \in f \/ ~deployed THEN <<>>
                              ELSE catalog.activeIds
                 ids == IF preferred # <<>> THEN preferred
                        ELSE IF "nextPackageId" \in f \/ ~deployed THEN <<>>
                        ELSE [i \in 1..catalog.nextPackageId |-> i - 1]
             IN  Ok(ReadPackages(ids, active_only, f))

get_all_packages(active_only, f) == Except(get_all_packages_body(active_only, f), <<>>)

(***************************************************************************)
(* get_packages_stats                                                      *)
(***************************************************************************)
DefaultWindow == 500000

BackfillWindow == 2500000

ZeroTotals == [total_purchases |-> 0, successful_purchases |-> 0, total_usd |-> DecZero]

\* a slip: the purchase counters kept on the service object, so a call starts
\* from the counts the call before it left
StaleAgg(pids) ==
    [pid \in pids |->
        IF last.op = "get_packages_stats" /\ pid \in DOMAIN last.agg
        THEN [ZeroTotals EXCEPT !.total_purchases = last.agg[pid].total_purchases]
        ELSE ZeroTotals]

\* agg = {pid: zero totals for pid in packages.keys()}
ZeroAgg(pids) == [pid \in pids |-> ZeroTotals]

\* the fold of the primary query's logs into agg
RECURSIVE FoldPurchased(_, _, _)
FoldPurchased(agg, lgs, usdt_dec) ==
    IF lgs = <<>> THEN agg
    ELSE LET lg == Head(lgs)
             tpcs == lg.topics
         IN  IF Len(tpcs) < 3 THEN FoldPurchased(agg, Tail(lgs), usdt_dec)
             ELSE LET pkg_id == WordToInt(tpcs[3])
                      agg1 == IF pkg_id \in DOMAIN agg THEN agg
                              ELSE agg @@ (pkg_id :> ZeroTotals)
                      data_hex == lg.data
                  IN  IF data_hex = <<>> THEN FoldPurchased(agg1, Tail(lgs), usdt_dec)
                      ELSE LET usdt_amount_raw == FirstWord(data_hex)
                               t == agg1[pkg_id]
                           IN  FoldPurchased(
                                 [agg1 EXCEPT ![pkg_id] =
                                    [total_purchases |-> t.total_purchases + 1,
                                     successful_purchases |-> t.successful_purchases + 1,
                                     total_usd |-> DecAdd(t.total_usd,
                                                     DivPow10(usdt_amount_raw, usdt_dec))]],
                                 Tail(lgs), usdt_dec)

\* the same fold, written out a second time for the backfill query's logs
RECURSIVE FoldBackfill(_, _, _)
FoldBackfill(agg, lgs, usdt_dec) ==
    IF lgs = <<>> THEN agg
    ELSE LET lg == Head(lgs)
             tpcs == lg.topics
         IN  IF Len(tpcs) < 3 THEN FoldBackfill(agg, Tail(lgs), usdt_dec)
             ELSE LET pkg_id == WordToInt(tpcs[3])
                      agg1 == IF pkg_id \in DOMAIN agg THEN agg
                              ELSE agg @@ (pkg_id :> ZeroTotals)
                      data_hex == lg.data
                  IN  IF data_hex = <<>> THEN FoldBackfill(agg1, Tail(lgs), usdt_dec)
                      ELSE LET usdt_amount_raw == FirstWord(data_hex)
                               t == agg1[pkg_id]
                           IN  FoldBackfill(
                                 [agg1 EXCEPT ![pkg_id] =
                                    [total_purchases |-> t.total_purchases + 1,
                                     successful_purchases |-> t.successful_purchases + 1,
                                     total_usd |-> DecAdd(t.total_usd,
                                                     DivPow10(usdt_amount_raw, usdt_dec))]],
                                 Tail(lgs), usdt_dec)

\* if len(logs) == 0 and (to_block is not None)
NeedsBackfill(lgs, to_block) == Len(lgs) = 0 /\ to_block # None

\* fb = max(0, to_block - 2_500_000)
BackfillFrom(to_block) == Max(0, to_block - BackfillWindow)

RECURSIVE SortedSeq(_)
SortedSeq(S) ==
    IF S = {} THEN <<>>
    ELSE LET m == CHOOSE x \in S : \A y \in S : x <= y
         IN  <<m>> \o SortedSeq(S \ {m})

\* list.sort(key=total_purchases, reverse=True): stable, equal keys keep their order
RECURSIVE InsertDesc(_, _)
InsertDesc(sorted, x) ==
    IF sorted = <<>> THEN <<x>>
    ELSE IF Head(sorted).total_purchases >= x.total_purchases
         THEN <<Head(sorted)>> \o InsertDesc(Tail(sorted), x)
         ELSE <<x>> \o sorted

RECURSIVE SortDesc(_)
SortDesc(s) ==
    IF s = <<>> THEN <<>>
    ELSE InsertDesc(SortDesc(SubSeq(s, 1, Len(s) - 1)), s[Len(s)])

\* the output list: one row per id of packages or agg, most purchases first
BuildOutput(pids, agg) ==
    LET all_pids == SortedSeq(pids \cup DOMAIN agg)
        Row(pid) ==
            LET totals == IF pid \in DOMAIN agg THEN agg[pid] ELSE ZeroTotals
            IN  [packageId |-> pid,
                 total_purchases |-> totals.total_purchases,
                 successful_purchases |-> totals.successful_purchases,
                 total_usd |-> totals.total_usd,
                 total_kes |-> 0,
                 avg_amount |-> IF totals.total_purchases > 0
                                THEN DecOver(totals.total_usd, totals.total_purchases)
                                ELSE DecOver(DecZero, 1)]
    IN  SortDesc([i \in 1..Len(all_pids) |-> Row(all_pids[i])])

PkgCall(ok, v, queries, agg, fetched) ==
    [ok |-> ok, v |-> v, queries |-> queries, agg |-> agg, fetched |-> fetched]

\* the try block of the method: v is the returned list, queries the log
\* queries issued, agg the accumulator when the block ended, fetched the logs
\* the queries returned; ok is FALSE when an exception leaves the block
get_packages_stats_body(from_block, to_block, f) ==
    LET pm_addr == contracts.packageManager
        connected == "is_connected" \notin f
    IN  IF ~Truthy(pm_addr) THEN PkgCall(TRUE, <<>>, <<>>, <<>>, <<>>)
        ELSE IF connected /\ "block_number" \in f THEN PkgCall(FALSE, <<>>, <<>>, <<>>, <<>>)
        ELSE
        LET latest_b == IF connected THEN latest ELSE None
            tb == IF to_block = None THEN latest_b ELSE to_block
            fb == IF from_block = None
                  THEN Max(0, (IF tb = None THEN 0 ELSE tb) - DefaultWindow)
                  ELSE from_block
            package_list == get_all_packages(FALSE, f).v
            packages == {package_list[i].packageId : i \in 1..Len(package_list)}
            cs == to_checksum_address(pm_addr)
            topic_purchased ==
                Keccak("Purchased(address,uint256,uint256,uint256,uint256,uint256,uint256,address,uint256)")
        IN  IF ~cs.ok THEN PkgCall(FALSE, <<>>, <<>>, <<>>, <<>>)
            ELSE
            LET r1 == get_logs(f, "get_logs", cs.v, <<topic_purchased>>, fb, tb)
                q1 == <<Query(fb, tb, r1)>>
            IN  IF ~r1.ok THEN PkgCall(FALSE, <<>>, q1, <<>>, <<>>)
                ELSE
                LET usdt_dec == DecimalsOr18(f, "usdt")
                    agg1 == FoldPurchased(ZeroAgg(packages), r1.v, usdt_dec)
                IN  IF ~NeedsBackfill(r1.v, tb)
                    THEN PkgCall(TRUE, BuildOutput(packages, agg1), q1, agg1, r1.v)
                    ELSE
                    LET fb2 == BackfillFrom(tb)
                        r2 == get_logs(f, "get_logs_backfill", cs.v, <<topic_purchased>>, fb2, tb)
                        agg2 == IF r2.ok THEN FoldBackfill(agg1, r2.v, usdt_dec) ELSE agg1
                    IN  PkgCall(TRUE, BuildOutput(packages, agg2),
                                q1 \o <<Query(fb2, tb, r2)>>, agg2,
                                IF r2.ok THEN r2.v ELSE <<>>)

get_packages_stats(from_block, to_block, f) ==
    Except(get_packages_stats_body(from_block, to_block, f), <<>>)

(***************************************************************************)
(* The log aggregators: referral payments, taxes, treasury inflows, token  *)
(* transfers; and the report that composes the first three.                *)
(***************************************************************************)
Approx24h == 28800

\* _topic_address: the address left-padded to a 32-byte word
topic_address(address) ==
    IF to_checksum_address(address).ok \/ address.form = "hex"
    THEN Ok(WordOf(address.id)) ELSE Raise

\* int(data_hex[2:66], 16) if data_hex and data_hex != '0x' else 0
AmountOf(lg) == IF lg.data # <<>> THEN FirstWord(lg.data) ELSE 0

RECURSIVE SumField(_, _)
SumField(events, field) ==
    IF events = <<>> THEN 0 ELSE events[1][field] + SumField(Tail(events), field)

\* the for loop of get_referral_payments over st = [events, by_ref]
RECURSIVE FoldReferrals(_, _)
FoldReferrals(st, lgs) ==
    IF lgs = <<>> THEN st
    ELSE LET lg == Head(lgs)
             topics == lg.topics
         IN  IF Len(topics) < 3 THEN FoldReferrals(st, Tail(lgs))
             ELSE LET ref_addr == AddrOfWord(topics[2])
                      buyer_addr == AddrOfWord(topics[3])
                      amount == AmountOf(lg)
                      key == to_checksum_address(ref_addr).v
                      agg == IF key \in DOMAIN st.by_ref THEN st.by_ref[key]
                             ELSE [reward |-> 0, count |-> 0]
                  IN  FoldReferrals(
                        [events |-> Append(st.events,
                            [referrer |-> key,
                             buyer |-> to_checksum_address(buyer_addr).v,
                             reward |-> amount, blockNumber |-> lg.blockNumber]),
                         by_ref |-> [k \in DOMAIN st.by_ref \cup {key} |->
                            IF k = key
                            THEN [reward |-> agg.reward + amount, count |-> agg.count + 1]
                            ELSE st.by_ref[k]]],
                        Tail(lgs))

get_referral_payments_body(from_block, to_block, f) ==
    LET pkg_addr == contracts.packageManager
    IN  IF ~Truthy(pkg_addr)
        THEN Ok([total |-> DecZero, events |-> <<>>, byReferrer |-> <<>>]) @@ [fetched |-> <<>>]
        ELSE
        LET topic == Keccak("ReferralPaid(address,address,uint256)")
            cs == to_checksum_address(pkg_addr)
            r == IF cs.ok THEN get_logs(f, "referrals.get_logs", cs.v, <<topic>>, from_block, to_block)
                 ELSE Raise
        IN  IF ~r.ok THEN Raise
            ELSE
            LET st == FoldReferrals([events |-> <<>>, by_ref |-> <<>>], r.v)
                blocks_dec == DecimalsOr18(f, "blocksToken")
                total_norm == IF st.events # <<>>
                              THEN DivPow10(SumField(st.events, "reward"), blocks_dec)
                              ELSE DecZero
                by_ref_norm == [k \in DOMAIN st.by_ref |->
                                  [reward |-> DivPow10(st.by_ref[k].reward, blocks_dec),
                                   count |-> st.by_ref[k].count]]
            IN  Ok([total |-> total_norm, events |-> st.events,
                    byReferrer |-> by_ref_norm, decimals |-> blocks_dec])
                @@ [fetched |-> r.v]

get_referral_payments(from_block, to_block, f) ==
    Except(get_referral_payments_body(from_block, to_block, f), ErrorDict)

\* the for loop of get_taxes_collected
RECURSIVE FoldTaxes(_, _)
FoldTaxes(events, lgs) ==
    IF lgs = <<>> THEN events
    ELSE LET lg == Head(lgs)
             topics == lg.topics
             recipient == IF Len(topics) > 2 THEN AddrOfWord(topics[3]) ELSE NoAddr
         IN  FoldTaxes(Append(events,
                          [recipient |-> IF Truthy(recipient)
                                         THEN to_checksum_address(recipient).v ELSE NoAddr,
                           amount |-> AmountOf(lg), blockNumber |-> lg.blockNumber]),
                       Tail(lgs))

get_taxes_collected_body(from_block, to_block, f) ==
    LET pkg_addr == contracts.packageManager
    IN  IF ~Truthy(pkg_addr)
        THEN Ok([total_usdt |-> DecZero, events |-> <<>>]) @@ [fetched |-> <<>>]
        ELSE
        LET topic == Keccak("TaxApplied(bytes32,uint256,address)")
            cs == to_checksum_address(pkg_addr)
            r == IF cs.ok THEN get_logs(f, "taxes.get_logs", cs.v, <<topic>>, from_block, to_block)
                 ELSE Raise
        IN  IF ~r.ok THEN Raise
            ELSE
            LET usdt_dec == DecimalsOr18(f, "usdt")
                events == FoldTaxes(<<>>, r.v)
            IN  Ok([total_usdt |-> DivPow10(SumField(events, "amount"), usdt_dec),
                    events |-> events, decimals |-> usdt_dec])
                @@ [fetched |-> r.v]

get_taxes_collected(from_block, to_block, f) ==
    Except(get_taxes_collected_body(from_block, to_block, f), ErrorDict)

\* the for loop of get_treasury_usdt_inflows
RECURSIVE FoldInflows(_, _)
FoldInflows(events, lgs) ==
    IF lgs = <<>> THEN events
    ELSE FoldInflows(Append(events, [amount |-> AmountOf(Head(lgs)),
                                     blockNumber |-> Head(lgs).blockNumber]),
                     Tail(lgs))

\* a slip: the recipient topic left out of the filter
InflowTopicsNoRecipient(topic, from_topic, to_topic) == <<topic, from_topic>>

\* the topics of the Transfer query: signature, sender, recipient
InflowTopics(topic, from_topic, to_topic) == <<topic, from_topic, to_topic>>

get_treasury_usdt_inflows_body(from_block, to_block, f) ==
    LET usdt_addr == contracts.usdt
        pkg_addr == contracts.packageManager
        treasury == contracts.treasury
    IN  IF ~Truthy(usdt_addr) \/ ~Truthy(pkg_addr) \/ ~Truthy(treasury)
        THEN Ok([total_usdt |-> DecZero, events |-> <<>>]) @@ [fetched |-> <<>>]
        ELSE
        LET topic == Keccak("Transfer(address,address,uint256)")
            from_topic == topic_address(pkg_addr)
            to_topic == topic_address(treasury)
            cs == to_checksum_address(usdt_addr)
            r == IF from_topic.ok /\ to_topic.ok /\ cs.ok
                 THEN get_logs(f, "treasury.get_logs", cs.v,
                               InflowTopics(topic, from_topic.v, to_topic.v),
                               from_block, to_block)
                 ELSE Raise
        IN  IF ~r.ok THEN Raise
            ELSE
            LET usdt_dec == DecimalsOr18(f, "usdt")
                events == FoldInflows(<<>>, r.v)
            IN  Ok([total_usdt |-> DivPow10(SumField(events, "amount"), usdt_dec),
                    events |-> events, decimals |-> usdt_dec])
                @@ [fetched |-> r.v]

get_treasury_usdt_inflows(from_block, to_block, f) ==
    Except(get_treasury_usdt_inflows_body(from_block, to_block, f), ErrorDict)

InvolvesSender(h, from_addr, to_addr) == from_addr = h

\* the holder test of get_blocks_transfers: the log is kept when the holder is
\* its sender or its recipient
Involves(h, from_addr, to_addr) == from_addr = h \/ to_addr = h

\* the for loop of get_blocks_transfers; holder is NoAddr when not given
RECURSIVE FoldTransfers(_, _, _, _)
FoldTransfers(events, lgs, holder, dec) ==
    IF lgs = <<>> THEN Ok(events)
    ELSE LET lg == Head(lgs)
             tpcs == lg.topics
         IN  IF Len(tpcs) < 3 THEN FoldTransfers(events, Tail(lgs), holder, dec)
             ELSE LET from_addr == to_checksum_address(AddrOfWord(tpcs[2])).v
                      to_addr == to_checksum_address(AddrOfWord(tpcs[3])).v
                      h == to_checksum_address(holder)
                  IN  IF Truthy(holder) /\ ~h.ok THEN Raise
                      ELSE IF Truthy(holder) /\ ~Involves(h.v, from_addr, to_addr)
                      THEN FoldTransfers(events, Tail(lgs), holder, dec)
                      ELSE FoldTransfers(
                             Append(events,
                               [from |-> from_addr, to |-> to_addr, amount |-> AmountOf(lg),
                                amount_norm |-> DivPow10(AmountOf(lg), dec),
                                blockNumber |-> lg.blockNumber]),
                             Tail(lgs), holder, dec)

get_blocks_transfers_body(from_block, to_block, holder, f) ==
    LET token_addr == contracts.blocksToken
    IN  IF ~Truthy(token_addr) THEN Ok([events |-> <<>>]) @@ [fetched |-> <<>>]
        ELSE
        LET topic == Keccak("Transfer(address,address,uint256)")
            addr_topic == IF Truthy(holder) THEN topic_address(holder) ELSE Ok(ZeroWord)
            cs == to_checksum_address(token_addr)
            r == IF addr_topic.ok /\ cs.ok
                 THEN get_logs(f, "transfers.get_logs", cs.v, <<topic>>, from_block, to_block)
                 ELSE Raise
        IN  IF ~r.ok THEN Raise
            ELSE
            LET dec == DecimalsOr18(f, "blocksToken")
                events == FoldTransfers(<<>>, r.v, holder, dec)
            IN  IF ~events.ok THEN Raise
                ELSE Ok([events |-> events.v, decimals |-> dec]) @@ [fetched |-> r.v]

get_blocks_transfers(from_block, to_block, holder, f) ==
    Except(get_blocks_transfers_body(from_block, to_block, holder, f), ErrorDict)

get_reports_summary_body(from_block, to_block, f) ==
    LET connected == is_connected(f).v
    IN  IF connected /\ ~block_number(f).ok THEN Raise
        ELSE
        LET latest_b == IF connected THEN latest ELSE None
            tb == IF to_block = None THEN latest_b ELSE to_block
            fb == IF from_block = None
                  THEN Max(0, (IF tb = None THEN 0 ELSE tb) - Approx24h)
                  ELSE from_block
            revenue_treasury == get_treasury_usdt_inflows(fb, tb, f).v
            revenue_taxes == get_taxes_collected(fb, tb, f).v
            referrals == get_referral_payments(fb, tb, f).v
        IN  Ok([range |-> [from |-> fb, to |-> tb],
                revenue |-> [treasury_usd |-> Get(revenue_treasury, "total_usdt", DecZero),
                             taxes_usd |-> Get(revenue_taxes, "total_usdt", DecZero)],
                referrals |-> referrals])

get_reports_summary(from_block, to_block, f) ==
    Except(get_reports_summary_body(from_block, to_block, f), ErrorDict)

(***************************************************************************)
(* Vesting and gas spend.                                                  *)
(***************************************************************************)
\* the loop of get_vesting_for_wallets; a wallet whose reads raise is skipped
RECURSIVE FoldVesting(_, _, _)
FoldVesting(results, wallets, f) ==
    IF wallets = <<>> THEN results
    ELSE LET w == to_checksum_address(Head(wallets))
             failed == ~w.ok \/ f \cap {"userSchedule", "totalLocked", "released"} # {}
             v == Get(chain.vesting, w.v.id,
                      [schedule |-> <<0, 0, 0>>, totalLocked |-> 0, released |-> 0])
         IN  FoldVesting(IF failed THEN results
                         ELSE Append(results,
                                [wallet |-> w.v, cliff |-> v.schedule[1],
                                 duration |-> v.schedule[2], start |-> v.schedule[3],
                                 totalLocked |-> v.totalLocked, released |-> v.released]),
                         Tail(wallets), f)

\* both except clauses return the list built so far; nothing in the try
\* block raises outside the per-wallet try
get_vesting_for_wallets(wallets, f) ==
    Except(IF "vestingVault" \notin contract_instances THEN Ok(<<>>)
           ELSE Ok(FoldVesting(<<>>, wallets, f)), <<>>)

DefaultMaxBlocks == 2000

\* self.w3.eth.get_block(bn, full_transactions=True): the transactions of a
\* block of the chain
get_block(bn, f) ==
    IF "get_block" \in f \/ bn > latest \/ bn < 0 THEN Raise
    ELSE Ok(Get(blocks, bn, <<>>))

\* {Web3.to_checksum_address(a) for a in addresses if a}
RECURSIVE AddrSetUnique(_)
AddrSetUnique(addresses) ==
    IF addresses = <<>> THEN Ok({})
    ELSE LET rest == AddrSetUnique(Tail(addresses))
             a == Head(addresses)
             cs == to_checksum_address(a)
         IN  IF ~rest.ok THEN Raise
             ELSE IF ~Truthy(a) THEN rest
             ELSE IF ~cs.ok THEN Raise
             ELSE Ok(rest.v \cup {cs.v})

GasPriceNominal(tx) == tx.gasPrice

\* int(eff if eff is not None else tx.get('gasPrice', 0))
GasPriceOf(tx) ==
    IF tx.effectiveGasPrice # None THEN tx.effectiveGasPrice ELSE tx.gasPrice

\* the inner loop over the transactions of one block
RECURSIVE ScanTxs(_, _, _, _)
ScanTxs(totals, txs, addr_set, f) ==
    IF txs = <<>> THEN Ok(totals)
    ELSE LET tx == Head(txs)
             frm == tx.from
             frm_cs == to_checksum_address(frm)
         IN  IF ~Truthy(frm) THEN ScanTxs(totals, Tail(txs), addr_set, f)
             ELSE IF ~frm_cs.ok THEN Raise
             ELSE IF frm_cs.v \notin addr_set THEN ScanTxs(totals, Tail(txs), addr_set, f)
             ELSE IF "get_transaction_receipt" \in f THEN Raise
             ELSE LET gas_used == tx.gasUsed
                      gas_price == GasPriceOf(tx)
                  IN  ScanTxs([totals EXCEPT
                                 ![frm_cs.v] = [gasWei |-> @.gasWei + gas_used * gas_price,
                                                txCount |-> @.txCount + 1]],
                              Tail(txs), addr_set, f)

\* the loop over range(bn, to_block + 1); st = [totals, scanned_blocks]
RECURSIVE ScanBlocks(_, _, _, _, _)
ScanBlocks(st, bn, to_block, addr_set, f) ==
    IF bn > to_block THEN Ok(st)
    ELSE LET block == get_block(bn, f)
             r == IF block.ok THEN ScanTxs(st.totals, block.v, addr_set, f) ELSE Raise
         IN  IF ~r.ok THEN Raise
             ELSE ScanBlocks([totals |-> r.v, scanned_blocks |-> st.scanned_blocks + 1],
                             bn + 1, to_block, addr_set, f)

\* a slip: addresses without a transaction left out of the list
GasTotalsSpenders(totals_by_addr) ==
    {[address |-> a, gasBNB |-> DivPow10(totals_by_addr[a].gasWei, 18),
      txCount |-> totals_by_addr[a].txCount] :
        a \in {x \in DOMAIN totals_by_addr : totals_by_addr[x].txCount > 0}}

\* the list `totals`, one entry per key of totals_by_addr (its order is the
\* iteration order of a set of strings: the list is kept as a set)
GasTotals(totals_by_addr) ==
    {[address |-> a, gasBNB |-> DivPow10(totals_by_addr[a].gasWei, 18),
      txCount |-> totals_by_addr[a].txCount] : a \in DOMAIN totals_by_addr}

get_gas_spend_body(addresses, from_block, to_block, max_blocks, f) ==
    LET head == IF to_block = None THEN block_number(f) ELSE Ok(to_block)
    IN  IF ~head.ok THEN Raise
        ELSE
        LET tb == head.v
            fb == IF from_block = None THEN Max(0, tb - max_blocks) ELSE from_block
            addr_set == AddrSetUnique(addresses)
        IN  IF ~addr_set.ok THEN Raise
            ELSE
            LET zero == [a \in addr_set.v |-> [gasWei |-> 0, txCount |-> 0]]
                scan == ScanBlocks([totals |-> zero, scanned_blocks |-> 0],
                                   Max(fb, tb - max_blocks), tb, addr_set.v, f)
            IN  IF ~scan.ok THEN Raise
                ELSE Ok([byAddress |-> GasTotals(scan.v.totals), from_block |-> fb,
                         to_block |-> tb, scannedBlocks |-> scan.v.scanned_blocks])

\* a slip: no except clause around the scan
get_gas_spend_unguarded(addresses, from_block, to_block, max_blocks, f) ==
    get_gas_spend_body(addresses, from_block, to_block, max_blocks, f)

get_gas_spend(addresses, from_block, to_block, max_blocks, f) ==
    Except(get_gas_spend_body(addresses, from_block, to_block, max_blocks, f), ErrorDict)

(***************************************************************************)
(* The environment: configuration and ledger contents.                     *)
(***************************************************************************)
\* the hardcoded fallback table of _load_contract_addresses (usdt and factory
\* are spelled in lower case there)
DefaultContracts ==
    [packageManager |-> Addr(PM), blocksToken |-> Addr(BLOCKS), usdt |-> AddrLc(USDT),
     vestingVault |-> Addr(VAULT), secondaryMarket |-> Addr(MARKET), treasury |-> Addr(TREASURY),
     factory |-> AddrLc(FACTORY)]

\* the field of the deployment manifest read for a name
ManifestKey(name) == IF name = "blocksToken" THEN "blocks" ELSE name

\* f"{key.upper()}_ADDRESS"
EnvKey(key) ==
    CASE key = "packageManager" -> "PACKAGEMANAGER_ADDRESS"
      [] key = "blocksToken" -> "BLOCKSTOKEN_ADDRESS"
      [] key = "usdt" -> "USDT_ADDRESS"
      [] key = "vestingVault" -> "VESTINGVAULT_ADDRESS"
      [] key = "secondaryMarket" -> "SECONDARYMARKET_ADDRESS"
      [] key = "treasury" -> "TREASURY_ADDRESS"
      [] key = "factory" -> "FACTORY_ADDRESS"

\* the try block that reads the manifest.  A manifest is [state, data]:
\* "missing" (no file), "unreadable" (open raises), "malformed" (json.load
\* raises), "not_a_dict" (data.get raises) or "ok" with data: field -> value
MergeManifest(defaults, manifest) ==
    IF manifest.state = "missing" THEN Ok(defaults)
    ELSE IF manifest.state # "ok" THEN Raise
    ELSE Ok([k \in DOMAIN defaults |->
                LET v == Get(manifest.data, ManifestKey(k), NoAddr)
                IN  IF Truthy(v) THEN v ELSE defaults[k]])

\* a slip: `env_key in os.environ` in place of the test of the value
OverrideFromEnvIfSet(defaults, environ) ==
    [key \in DOMAIN defaults |->
        IF EnvKey(key) \in DOMAIN environ THEN environ[EnvKey(key)] ELSE defaults[key]]

\* the loop over the environment overrides; os.environ.get(env_key) is None
\* for an unset variable and '' for an empty one
OverrideFromEnv(defaults, environ) ==
    [key \in DOMAIN defaults |->
        IF Truthy(Get(environ, EnvKey(key), NoAddr))
        THEN Get(environ, EnvKey(key), NoAddr) ELSE defaults[key]]

load_contract_addresses(manifest, environ) ==
    LET defaults == DefaultContracts
        merged == Except(MergeManifest(defaults, manifest), defaults).v
    IN  OverrideFromEnv(merged, environ)

LatestBlock == 6 * DefaultWindow

\* no bot process, and an empty database
NoBot == [pc |-> "none"]

NoDb == [users |-> <<>>, transactions |-> <<>>]

NoCatalog == [activeIds |-> <<>>, nextPackageId |-> 0, pkgs |-> <<>>]

NoPool == [override |-> NoAddr, bnb_override |-> NoAddr, getPair |-> 0, pairs |-> <<>>]

NoBlocks == <<>>

\* a chain whose tokens have no supply and whose accounts hold nothing
NoChain ==
    [chainId |-> 56, gasPrice |-> 0, totalSupply |-> <<>>, balanceOf |-> <<>>,
     balance |-> <<>>, vesting |-> <<>>]

SeqsUpTo(S, n) == UNION {[1..k -> S] : k \in 0..n}

\* the ledgers of at most MaxLogs logs drawn from S, in block order
Ledgers(S) ==
    {s \in SeqsUpTo(S, MaxLogs) :
        \A i \in 1..Len(s) : \A j \in i..Len(s) : s[i].blockNumber <= s[j].blockNumber}

PurchasedLog(blk, pid, data) ==
    [address |-> PM, blockNumber |-> blk,
     topics |-> <<Keccak("Purchased(address,uint256,uint256,uint256,uint256,uint256,uint256,address,uint256)"),
                  WordOf(ALICE), WordOf(pid)>>,
     data |-> data]

\* Purchased logs inside the default window, inside the backfill window only
\* and before both; with a whole payload, an empty one, a one-byte one; and
\* one with the packageId topic missing
PurchasedLogs ==
    { PurchasedLog(LatestBlock - 1000, 0, Word32(100) \o Word32(7)),
      PurchasedLog(LatestBlock - 1000, 0, <<>>),
      PurchasedLog(LatestBlock - 1000, 1, <<1>>),
      PurchasedLog(LatestBlock - 4 * DefaultWindow, 1, Word32(250) \o Word32(7)),
      PurchasedLog(1000, 7, Word32(75) \o Word32(7)),
      [PurchasedLog(LatestBlock - 4 * DefaultWindow, 0, Word32(100))
          EXCEPT !.topics = SubSeq(@, 1, 2)] }

PackageCatalog ==
    [activeIds |-> <<0, 1>>, nextPackageId |-> 2,
     pkgs |-> (0 :> [active |-> TRUE, exists |-> TRUE, readable |-> TRUE]
            @@ 1 :> [active |-> FALSE, exists |-> TRUE, readable |-> TRUE])]

\* the sets of failing remote calls a call is tried under: none, each alone, all
Faults(sites) == {{}} \cup {{c} : c \in sites} \cup {sites}

\* the remote calls of get_packages_stats
PkgSites == {"is_connected", "block_number", "get_logs", "get_logs_backfill", "usdt.decimals"}

\* the remote calls of each metric family
NetworkSites == {"chain_id", "block_number", "gas_price", "is_connected", "is_connected.raise"}

BlocksTokenSites == {"blocksToken.totalSupply", "blocksToken.decimals", "blocksToken.symbol"}

UsdtSites == {"usdt.totalSupply", "usdt.decimals", "usdt.symbol"}

TreasurySites == {"blocksToken.balanceOf", "usdt.balanceOf", "get_balance"}

PriceSites == {"getPair", "token0", "token1", "getReserves", "decimals0", "decimals1"}

\* the ledgers made of at most MaxLedger of the logs of `universe`, in its order
RECURSIVE SubSeqs(_)
SubSeqs(universe) ==
    IF universe = <<>> THEN {<<>>}
    ELSE LET rest == SubSeqs(Tail(universe))
         IN  rest \cup {<<Head(universe)>> \o s : s \in {t \in rest : Len(t) < MaxLedger}}

TransferLog(token, blk, sender, recipient, amount) ==
    [address |-> token, blockNumber |-> blk,
     topics |-> <<Keccak("Transfer(address,address,uint256)"), WordOf(sender), WordOf(recipient)>>,
     data |-> Word32(amount)]

\* stable-coin transfers from the package manager to the treasury in blocks
\* 1000..2000, and transfers that differ from them in one respect: recipient,
\* sender, block, token; a token transfer with the recipient topic missing
TransferUniverse ==
    << TransferLog(USDT, 1000, PM, TREASURY, 100000000),
       TransferLog(BLOCKS, 1200, PM, TREASURY, 300),
       TransferLog(USDT, 1500, PM, TREASURY, 250000000),
       TransferLog(USDT, 1500, PM, ALICE, 5000000),
       TransferLog(USDT, 1600, ALICE, TREASURY, 7000000),
       TransferLog(BLOCKS, 1700, ALICE, BOB, 50),
       TransferLog(USDT, 2000, PM, TREASURY, 75000000),
       TransferLog(USDT, 2500, PM, TREASURY, 9000000),
       [TransferLog(BLOCKS, 1800, ALICE, BOB, 9) EXCEPT !.topics = SubSeq(@, 1, 2)],
       TransferLog(BLOCKS, 2500, BOB, ALICE, 20) >>

ReferralLog(blk, referrer, buyer, data) ==
    [address |-> PM, blockNumber |-> blk,
     topics |-> <<Keccak("ReferralPaid(address,address,uint256)"), WordOf(referrer), WordOf(buyer)>>,
     data |-> data]

TaxLog(blk, recipient, data) ==
    [address |-> PM, blockNumber |-> blk,
     topics |-> <<Keccak("TaxApplied(bytes32,uint256,address)"), WordOf(77), WordOf(recipient)>>,
     data |-> data]

\* referral rewards in units of the reward token's smallest unit: 1, 2 and
\* 0.5 tokens; a referral log with an empty payload, one with a topic missing;
\* tax logs with a whole and an empty payload, and one with a topic missing
ReferralUniverse ==
    << ReferralLog(1000, ALICE, BOB, Word32(Pow10(MaxDec))),
       ReferralLog(1100, ALICE, PM, Word32(2 * Pow10(MaxDec))),
       ReferralLog(1200, BOB, ALICE, Word32(5 * Pow10(MaxDec - 1))),
       ReferralLog(1300, ALICE, BOB, <<>>),
       [ReferralLog(1400, BOB, ALICE, Word32(Pow10(MaxDec))) EXCEPT !.topics = SubSeq(@, 1, 2)],
       TaxLog(1500, TREASURY, Word32(3 * Pow10(MaxDec))),
       TaxLog(1600, TREASURY, <<>>),
       [TaxLog(1700, TREASURY, Word32(4 * Pow10(MaxDec))) EXCEPT !.topics = SubSeq(@, 1, 2)],
       ReferralLog(2500, BOB, ALICE, Word32(Pow10(MaxDec))) >>

InitEnv(universe, usdt_dec) ==
    /\ logs \in SubSeqs(universe)
    /\ latest = LatestBlock
    /\ tokenDec = [usdt |-> usdt_dec, blocksToken |-> MaxDec]
    /\ catalog = NoCatalog
    /\ pool = NoPool
    /\ blocks = NoBlocks
    /\ chain = NoChain
    /\ contracts = DefaultContracts
    /\ last = NoCall
    /\ prev = NoCall
    /\ bot = NoBot
    /\ db = NoDb

Record(op, args, f, r) == [op |-> op, f |-> f] @@ args @@ r

(***************************************************************************)
(* Transfers: treasury inflows and token transfers.                        *)
(***************************************************************************)
InitTransfers == InitEnv(TransferUniverse, 6)

TreasuryInflows ==
    /\ \E from_block \in {0, 1000}, to_block \in {2000, 3000},
          f \in Faults({"treasury.get_logs", "usdt.decimals"}) :
          last' = Record("get_treasury_usdt_inflows",
                         [from_block |-> from_block, to_block |-> to_block], f,
                         get_treasury_usdt_inflows(from_block, to_block, f))
    /\ UNCHANGED <<env, prev>>

BlocksTransfers ==
    /\ \E from_block \in {1000}, to_block \in {2000, 3000},
          holder \in {NoAddr, Addr(ALICE), AddrLc(BOB), BadAddr, [id |-> BOB, form |-> "hex"]},
          f \in Faults({"transfers.get_logs", "blocksToken.decimals"}) :
          last' = Record("get_blocks_transfers",
                         [from_block |-> from_block, to_block |-> to_block, holder |-> holder], f,
                         get_blocks_transfers(from_block, to_block, holder, f))
    /\ UNCHANGED <<env, prev>>

NextTransfers == TreasuryInflows \/ BlocksTransfers

SpecTransfers == InitTransfers /\ [][NextTransfers]_vars

(***************************************************************************)
(* Referral payments and taxes.                                            *)
(***************************************************************************)
InitReferrals == InitEnv(ReferralUniverse, MaxDec)

ReferralPayments ==
    /\ \E from_block \in {0, 1100}, to_block \in {2000, 3000},
          f \in Faults({"referrals.get_logs", "blocksToken.decimals"}) :
          last' = Record("get_referral_payments",
                         [from_block |-> from_block, to_block |-> to_block], f,
                         get_referral_payments(from_block, to_block, f))
    /\ UNCHANGED <<env, prev>>

TaxesCollected ==
    /\ \E from_block \in {0, 1100}, to_block \in {2000, 3000},
          f \in Faults({"taxes.get_logs", "usdt.decimals"}) :
          last' = Record("get_taxes_collected",
                         [from_block |-> from_block, to_block |-> to_block], f,
                         get_taxes_collected(from_block, to_block, f))
    /\ UNCHANGED <<env, prev>>

NextReferrals == ReferralPayments \/ TaxesCollected

SpecReferrals == InitReferrals /\ [][NextReferrals]_vars

(***************************************************************************)
(* Price discovery.                                                        *)
(***************************************************************************)
PairStates ==
    {[token0 |-> t[1], token1 |-> t[2], reserve0 |-> r0, reserve1 |-> r1] :
        t \in {<<BLOCKS, USDT>>, <<USDT, BLOCKS>>, <<BLOCKS, WBNB>>, <<WBNB, USDT>>,
               <<USDT, USDT>>},
        r0 \in 0..MaxReserve, r1 \in 0..MaxReserve}

InitPrice ==
    /\ logs = <<>>
    /\ latest = LatestBlock
    /\ tokenDec \in [{"usdt", "blocksToken"} -> 0..MaxDec]
    /\ catalog = NoCatalog
    /\ pool \in {[override |-> o, bnb_override |-> NoAddr, getPair |-> g, pairs |-> PAIR :> ps] :
                    o \in {NoAddr, Addr(PAIR)}, g \in {0, PAIR}, ps \in PairStates}
    /\ blocks = NoBlocks
    /\ chain = NoChain
    /\ contracts = DefaultContracts
    /\ last = NoCall
    /\ prev = NoCall
    /\ bot = NoBot
    /\ db = NoDb

BlocksUsdtPrice ==
    /\ \E f \in Faults(PriceSites) :
          last' = Record("get_blocks_usdt_price", <<>>, f, get_blocks_usdt_price(f))
    /\ UNCHANGED <<env, prev>>

NextPrice == BlocksUsdtPrice

SpecPrice == InitPrice /\ [][NextPrice]_vars

(***************************************************************************)
(* Reports: the summary of the three aggregators and the comprehensive     *)
(* statistics.                                                             *)
(***************************************************************************)
\* one treasury inflow, one transfer to another recipient, one tax, two
\* referral payments
ReportUniverse ==
    << TransferLog(USDT, 1000, PM, TREASURY, 4 * Pow10(MaxDec)),
       TransferLog(USDT, 1100, PM, ALICE, 5 * Pow10(MaxDec)),
       TaxLog(1500, TREASURY, Word32(3 * Pow10(MaxDec))),
       ReferralLog(1600, ALICE, BOB, Word32(Pow10(MaxDec))),
       ReferralLog(1700, BOB, ALICE, Word32(2 * Pow10(MaxDec))) >>

ReportPools ==
    {NoPool,
     [override |-> NoAddr, bnb_override |-> NoAddr, getPair |-> PAIR,
      pairs |-> PAIR :> [token0 |-> USDT, token1 |-> BLOCKS, reserve0 |-> 1, reserve1 |-> 2]]}

ReportChains ==
    {NoChain,
     [chainId |-> 56, gasPrice |-> 3, totalSupply |-> (USDT :> 7 @@ BLOCKS :> 9),
      balanceOf |-> (USDT :> (TREASURY :> 4) @@ BLOCKS :> (TREASURY :> 5)),
      balance |-> (TREASURY :> 6), vesting |-> <<>>]}

InitReports ==
    /\ logs \in SubSeqs(ReportUniverse)
    /\ latest = LatestBlock
    /\ tokenDec = [usdt |-> MaxDec, blocksToken |-> MaxDec]
    /\ catalog = NoCatalog
    /\ pool \in ReportPools
    /\ blocks = NoBlocks
    /\ chain \in ReportChains
    /\ (pool = NoPool) <=> (chain = NoChain)
    /\ contracts = DefaultContracts
    /\ last = NoCall
    /\ prev = NoCall
    /\ bot = NoBot
    /\ db = NoDb

SummarySites ==
    {"is_connected", "is_connected.raise", "block_number", "treasury.get_logs",
     "taxes.get_logs", "referrals.get_logs", "usdt.decimals", "blocksToken.decimals"}

ReportsSummary ==
    /\ \E rng \in {<<None, None>>, <<None, 2000>>, <<1000, 2000>>},
          f \in Faults(SummarySites) :
          last' = Record("get_reports_summary",
                         [from_block |-> rng[1], to_block |-> rng[2]], f,
                         get_reports_summary(rng[1], rng[2], f))
    /\ UNCHANGED <<env, prev>>

ComprehensiveStats ==
    /\ \E f \in Faults(NetworkSites \cup BlocksTokenSites \cup UsdtSites
                        \cup TreasurySites \cup PriceSites) :
          last' = Record("get_comprehensive_stats", <<>>, f, get_comprehensive_stats(f))
    /\ UNCHANGED <<env, prev>>

NextReports == ReportsSummary \/ ComprehensiveStats

SpecReports == InitReports /\ [][NextReports]_vars

(***************************************************************************)
(* Gas spend.                                                              *)
(***************************************************************************)
\* a transaction of a block with its receipt's gasUsed and effectiveGasPrice
Tx(from, gasUsed, effectiveGasPrice, gasPrice) ==
    [from |-> from, gasUsed |-> gasUsed, effectiveGasPrice |-> effectiveGasPrice,
     gasPrice |-> gasPrice]

Txs ==
    {Tx(from, g, eff, 1) :
        from \in {Addr(ALICE), AddrLc(ALICE), Addr(BOB), NoAddr},
        g \in {MaxGas}, eff \in {None, 3}}

\* chains of MaxBlock + 1 blocks, two of them holding a transaction or two
BlockMaps ==
    {<<>>} \cup {(0 :> <<t>>) : t \in Txs}
           \cup {(1 :> <<t, Tx(Addr(ALICE), 1, 3, 1)>>) @@ (MaxBlock :> <<u>>) :
                    t \in Txs, u \in {Tx(Addr(BOB), MaxGas, None, 1), Tx(Addr(PM), 1, 3, 1)}}

AllowLists ==
    {<<>>, <<Addr(ALICE)>>, <<AddrLc(ALICE), Addr(ALICE)>>, <<Addr(ALICE), Addr(BOB)>>,
     <<Addr(BOB), NoAddr, Addr(TREASURY)>>, <<Addr(ALICE), BadAddr>>}

InitGas ==
    /\ logs = <<>>
    /\ latest = MaxBlock
    /\ tokenDec = [usdt |-> MaxDec, blocksToken |-> MaxDec]
    /\ catalog = NoCatalog
    /\ pool = NoPool
    /\ blocks \in BlockMaps
    /\ chain = NoChain
    /\ contracts = DefaultContracts
    /\ last = NoCall
    /\ prev = NoCall
    /\ bot = NoBot
    /\ db = NoDb

GasSites == {"block_number", "get_block", "get_transaction_receipt"}

\* from_block, to_block, max_blocks
GasRanges ==
    {<<None, None, DefaultMaxBlocks>>, <<None, None, 1>>, <<None, MaxBlock, 1>>,
     <<0, 1, DefaultMaxBlocks>>, <<1, MaxBlock, 1>>, <<0, MaxBlock + 1, DefaultMaxBlocks>>,
     <<1, 0, DefaultMaxBlocks>>}

GasSpend ==
    /\ \E addresses \in AllowLists, rng \in GasRanges, f \in Faults(GasSites) :
          last' = Record("get_gas_spend",
                         [addresses |-> addresses, from_block |-> rng[1],
                          to_block |-> rng[2], max_blocks |-> rng[3]], f,
                         get_gas_spend(addresses, rng[1], rng[2], rng[3], f))
    /\ UNCHANGED <<env, prev>>

NextGas == GasSpend

SpecGas == InitGas /\ [][NextGas]_vars

(***************************************************************************)
(* The public entry points, each under failing remote calls, malformed     *)
(* configuration and malformed logs.                                       *)
(***************************************************************************)
\* a purchase with a one-byte payload, a referral payment with a topic
\* missing, a swap with a payload of three words and a half
ApiUniverse ==
    << [PurchasedLog(1, 0, <<7>>) EXCEPT !.topics = SubSeq(@, 1, 2)],
       [ReferralLog(2, ALICE, BOB, <<>>) EXCEPT !.topics = SubSeq(@, 1, 2)],
       [address |-> PAIR, blockNumber |-> 2,
        topics |-> <<Keccak("Swap(address,uint256,uint256,uint256,uint256,address)")>>,
        data |-> Word32(1) \o Word32(2) \o Word32(3) \o <<4>>] >>

ApiContracts ==
    {DefaultContracts,
     [DefaultContracts EXCEPT !.packageManager = BadAddr, !.treasury = AddrLc(TREASURY)],
     [DefaultContracts EXCEPT !.blocksToken = BadAddr, !.usdt = BadAddr,
                              !.vestingVault = BadAddr, !.factory = BadAddr]}

ApiPools ==
    {[override |-> NoAddr, bnb_override |-> Addr(PAIR_BNB), getPair |-> PAIR,
      pairs |-> PAIR :> [token0 |-> USDT, token1 |-> BLOCKS, reserve0 |-> 1, reserve1 |-> 2]
             @@ PAIR_BNB :> [token0 |-> ALICE, token1 |-> BLOCKS, reserve0 |-> 1, reserve1 |-> 0]],
     [override |-> BadAddr, bnb_override |-> NoAddr, getPair |-> 0, pairs |-> <<>>]}

InitApi ==
    /\ logs \in {<<>>, ApiUniverse}
    /\ latest = MaxBlock
    /\ tokenDec = [usdt |-> MaxDec, blocksToken |-> MaxDec]
    /\ catalog = PackageCatalog
    /\ pool \in ApiPools
    /\ blocks = (1 :> <<Tx(Addr(ALICE), MaxGas, None, 1), Tx(NoAddr, 1, 3, 1)>>)
    /\ chain = NoChain
    /\ contracts \in ApiContracts
    /\ last = NoCall
    /\ prev = NoCall
    /\ bot = NoBot
    /\ db = NoDb

IsConnected ==
    /\ \E f \in Faults({"is_connected", "is_connected.raise"}) :
          last' = Record("is_connected", <<>>, f, is_connected(f))
    /\ UNCHANGED <<env, prev>>

GetLatestBlock ==
    /\ \E f \in Faults({"block_number"}) :
          last' = Record("get_latest_block", <<>>, f, get_latest_block(f))
    /\ UNCHANGED <<env, prev>>

GetTokenInfo ==
    /\ \E token_address \in {AddrLc(USDT), Addr(ALICE), BadAddr, NoAddr},
          f \in Faults({"symbol", "decimals", "totalSupply"}) :
          last' = Record("get_token_info", [token_address |-> token_address], f,
                         get_token_info(token_address, f))
    /\ UNCHANGED <<env, prev>>

LiquiditySites ==
    {"is_connected", "block_number", "getPair", "token0", "getReserves", "symbol",
     "decimals", "swap.get_logs"}

GetLiquidityStats ==
    /\ \E f \in Faults(LiquiditySites) :
          last' = Record("get_liquidity_stats", <<>>, f, get_liquidity_stats(f))
    /\ UNCHANGED <<env, prev>>

GetAllPackages ==
    /\ \E active_only \in BOOLEAN,
          f \in Faults({"getActivePackageIds", "nextPackageId", "getPackage"}) :
          last' = Record("get_all_packages", [active_only |-> active_only], f,
                         get_all_packages(active_only, f))
    /\ UNCHANGED <<env, prev>>

GetPackagesStats ==
    /\ \E rng \in {<<None, None>>, <<0, MaxBlock>>},
          f \in Faults(PkgSites \cup {"getActivePackageIds", "getPackage"}) :
          last' = Record("get_packages_stats", [from_block |-> rng[1], to_block |-> rng[2]], f,
                         get_packages_stats(rng[1], rng[2], f))
    /\ UNCHANGED <<env, prev>>

GetReferralPayments ==
    /\ \E f \in Faults({"referrals.get_logs", "blocksToken.decimals"}) :
          last' = Record("get_referral_payments", [from_block |-> 0, to_block |-> None], f,
                         get_referral_payments(0, None, f))
    /\ UNCHANGED <<env, prev>>

GetTaxesCollected ==
    /\ \E f \in Faults({"taxes.get_logs", "usdt.decimals"}) :
          last' = Record("get_taxes_collected", [from_block |-> 0, to_block |-> None], f,
                         get_taxes_collected(0, None, f))
    /\ UNCHANGED <<env, prev>>

GetTreasuryUsdtInflows ==
    /\ \E f \in Faults({"treasury.get_logs", "usdt.decimals"}) :
          last' = Record("get_treasury_usdt_inflows", [from_block |-> 0, to_block |-> None], f,
                         get_treasury_usdt_inflows(0, None, f))
    /\ UNCHANGED <<env, prev>>

GetBlocksTransfers ==
    /\ \E holder \in {NoAddr, Addr(ALICE), BadAddr},
          f \in Faults({"transfers.get_logs", "blocksToken.decimals"}) :
          last' = Record("get_blocks_transfers",
                         [from_block |-> 0, to_block |-> None, holder |-> holder], f,
                         get_blocks_transfers(0, None, holder, f))
    /\ UNCHANGED <<env, prev>>

GetVestingForWallets ==
    /\ \E wallets \in {<<>>, <<Addr(ALICE), BadAddr>>, <<AddrLc(BOB)>>},
          f \in Faults({"userSchedule", "totalLocked", "released"}) :
          last' = Record("get_vesting_for_wallets", [wallets |-> wallets], f,
                         get_vesting_for_wallets(wallets, f))
    /\ UNCHANGED <<env, prev>>

GetGasSpend ==
    /\ \E addresses \in {<<Addr(ALICE)>>, <<Addr(BOB), BadAddr>>},
          rng \in {<<None, None, DefaultMaxBlocks>>, <<0, MaxBlock + 1, 1>>},
          f \in Faults(GasSites) :
          last' = Record("get_gas_spend",
                         [addresses |-> addresses, from_block |-> rng[1],
                          to_block |-> rng[2], max_blocks |-> rng[3]], f,
                         get_gas_spend(addresses, rng[1], rng[2], rng[3], f))
    /\ UNCHANGED <<env, prev>>

GetReportsSummary ==
    /\ \E rng \in {<<None, None>>, <<0, MaxBlock>>}, f \in Faults(SummarySites) :
          last' = Record("get_reports_summary",
                         [from_block |-> rng[1], to_block |-> rng[2]], f,
                         get_reports_summary(rng[1], rng[2], f))
    /\ UNCHANGED <<env, prev>>

GetComprehensiveStats ==
    /\ \E f \in Faults(NetworkSites \cup BlocksTokenSites \cup UsdtSites
                        \cup TreasurySites \cup PriceSites) :
          last' = Record("get_comprehensive_stats", <<>>, f, get_comprehensive_stats(f))
    /\ UNCHANGED <<env, prev>>

NextApi ==
    \/ IsConnected
    \/ GetLatestBlock
    \/ GetTokenInfo
    \/ GetLiquidityStats
    \/ GetAllPackages
    \/ GetPackagesStats
    \/ GetReferralPayments
    \/ GetTaxesCollected
    \/ GetTreasuryUsdtInflows
    \/ GetBlocksTransfers
    \/ GetVestingForWallets
    \/ GetGasSpend
    \/ GetReportsSummary
    \/ GetComprehensiveStats

SpecApi == InitApi /\ [][NextApi]_vars

(***************************************************************************)
(* Liquidity: pool snapshots, token metadata and normalisation.            *)
(***************************************************************************)
\* a Swap log of a pair: amount0In, amount1In, amount0Out, amount1Out and
\* the words after them
SwapLog(pair, blk, data) ==
    [address |-> pair, blockNumber |-> blk,
     topics |-> <<Keccak("Swap(address,uint256,uint256,uint256,uint256,address)"),
                  WordOf(ALICE), WordOf(BOB)>>,
     data |-> data]

Words(a0_in, a1_in, a0_out, a1_out) ==
    Word32(a0_in) \o Word32(a1_in) \o Word32(a0_out) \o Word32(a1_out)

\* swaps of the USDT pair inside the 24h window, on its first block and one
\* block before it; one with three words, one with three words and three
\* bytes; one of the BNB pair; a Transfer log of the USDT pair
SwapUniverse ==
    << SwapLog(PAIR, LatestBlock - Blocks24h - 1, Words(900, 900, 900, 900)),
       SwapLog(PAIR, LatestBlock - Blocks24h, Words(1, 20, 300, 4000)),
       SwapLog(PAIR, LatestBlock - 50, Word32(1) \o Word32(2) \o Word32(3)),
       SwapLog(PAIR, LatestBlock - 40, Word32(11) \o Word32(12) \o Word32(13) \o <<0, 0, 14>>),
       SwapLog(PAIR_BNB, LatestBlock - 30, Words(5, 60, 700, 8000)),
       [SwapLog(PAIR, LatestBlock - 20, Words(7, 7, 7, 7)) EXCEPT
           !.topics = <<Keccak("Transfer(address,address,uint256)")>>],
       SwapLog(PAIR, LatestBlock, Words(50000, 0, 0, 600000) \o Word32(9)) >>

PrimaryPairs ==
    {[token0 |-> USDT, token1 |-> BLOCKS, reserve0 |-> 5, reserve1 |-> MaxReserve],
     [token0 |-> BLOCKS, token1 |-> USDT, reserve0 |-> MaxReserve, reserve1 |-> 30],
     [token0 |-> BLOCKS, token1 |-> WBNB, reserve0 |-> 1, reserve1 |-> MaxReserve],
     [token0 |-> ALICE, token1 |-> USDT, reserve0 |-> MaxReserve, reserve1 |-> 7]}

SecondaryPairs ==
    {[token0 |-> WBNB, token1 |-> BLOCKS, reserve0 |-> 1, reserve1 |-> MaxReserve],
     [token0 |-> USDT, token1 |-> WBNB, reserve0 |-> 40, reserve1 |-> 1]}

LiquidityPools ==
    {[override |-> og[1], bnb_override |-> b, getPair |-> og[2],
      pairs |-> PAIR :> p1 @@ PAIR_BNB :> p2] :
        og \in {<<NoAddr, PAIR>>, <<Addr(PAIR), 0>>, <<NoAddr, 0>>},
        b \in {NoAddr, Addr(PAIR_BNB)}, p1 \in PrimaryPairs, p2 \in SecondaryPairs}

InitLiquidity ==
    /\ logs \in SubSeqs(SwapUniverse)
    /\ latest = LatestBlock
    /\ tokenDec = [usdt |-> MaxDec, blocksToken |-> 1]
    /\ catalog = NoCatalog
    /\ pool \in LiquidityPools
    /\ blocks = NoBlocks
    /\ chain = NoChain
    /\ contracts = DefaultContracts
    /\ last = NoCall
    /\ prev = NoCall
    /\ bot = NoBot
    /\ db = NoDb

LiquidityStats ==
    /\ \E f \in Faults(LiquiditySites) :
          last' = Record("get_liquidity_stats", <<>>, f, get_liquidity_stats(f))
    /\ UNCHANGED <<env, prev>>

NextLiquidity == LiquidityStats

SpecLiquidity == InitLiquidity /\ [][NextLiquidity]_vars

(***************************************************************************)
(* Pool resolution: price discovery and liquidity on the same pools.       *)
(***************************************************************************)
\* the override and the factory's answer: one of them, both, neither; with
\* and without a secondary pair
ResolutionPools ==
    {[override |-> og[1], bnb_override |-> b, getPair |-> og[2],
      pairs |-> PAIR :> p1 @@ PAIR_BNB :> p2] :
        og \in {<<NoAddr, PAIR>>, <<Addr(PAIR), 0>>, <<NoAddr, 0>>, <<Addr(PAIR), PAIR_BNB>>},
        b \in {NoAddr, Addr(PAIR_BNB)}, p1 \in PrimaryPairs, p2 \in SecondaryPairs}

InitPools ==
    /\ logs = <<>>
    /\ latest = LatestBlock
    /\ tokenDec = [usdt |-> MaxDec, blocksToken |-> 1]
    /\ catalog = NoCatalog
    /\ pool \in ResolutionPools
    /\ blocks = NoBlocks
    /\ chain = NoChain
    /\ contracts = DefaultContracts
    /\ last = NoCall
    /\ prev = NoCall
    /\ bot = NoBot
    /\ db = NoDb

NextPools == BlocksUsdtPrice \/ LiquidityStats

SpecPools == InitPools /\ [][NextPools]_vars

(***************************************************************************)
(* The package catalog on its own.                                         *)
(***************************************************************************)
\* what getPackage may answer for an id: an active package, an inactive one,
\* an empty slot, or a revert
PackageKinds ==
    {[active |-> TRUE, exists |-> TRUE, readable |-> TRUE],
     [active |-> FALSE, exists |-> TRUE, readable |-> TRUE],
     [active |-> FALSE, exists |-> FALSE, readable |-> TRUE],
     [active |-> TRUE, exists |-> TRUE, readable |-> FALSE]}

\* the ids of the active packages among 0..n-1, in increasing order
RECURSIVE ActiveIds(_, _)
ActiveIds(pkgs, n) ==
    IF n = 0 THEN <<>>
    ELSE ActiveIds(pkgs, n - 1) \o (IF pkgs[n - 1].active THEN <<n - 1>> ELSE <<>>)

\* the contract's state: nextPackageId packages, and the ids of the active
\* ones as getActivePackageIds lists them
Catalogs ==
    UNION {{[activeIds |-> ActiveIds(pkgs, n), nextPackageId |-> n, pkgs |-> pkgs] :
               pkgs \in [0..(n - 1) -> PackageKinds]} : n \in 0..MaxPackages}

InitCatalog ==
    /\ logs = <<>>
    /\ latest = LatestBlock
    /\ tokenDec = [usdt |-> MaxDec, blocksToken |-> MaxDec]
    /\ catalog \in Catalogs
    /\ pool = NoPool
    /\ blocks = NoBlocks
    /\ chain = NoChain
    /\ contracts = DefaultContracts
    /\ last = NoCall
    /\ prev = NoCall
    /\ bot = NoBot
    /\ db = NoDb

NextCatalog == GetAllPackages

SpecCatalog == InitCatalog /\ [][NextCatalog]_vars

(***************************************************************************)
(* The buyer bot: main() of auto-blocks-buyer/bot.py and its utilities.    *)
(* Amounts are in hundredths of a USDT, the token's smallest unit here.    *)
(***************************************************************************)
\* int(random.uniform(5, 10) * 60): the ends of the range
BaseBackoffs == {5 * 60, 10 * 60}

\* random.uniform(0.9, 1.1), in tenths: the ends and the middle
Jitters == {9, 10, 11}

\* next_backoff_seconds(prev_backoff): the values it may return
next_backoff_seconds(prev_backoff) ==
    IF prev_backoff = None \/ prev_backoff <= 0 THEN BaseBackoffs
    ELSE LET next_val == Min(prev_backoff * 2, 60 * 60)
         IN  {(next_val * jitter) \div 10 : jitter \in Jitters}

\* random_delay_seconds(): the ends of 15..90 minutes
random_delay_seconds == {15 * 60, 90 * 60}

\* random_trade_amount_usdt(): the ends of 1..10 USDT
random_trade_amount_usdt == {100, 1000}

\* the allowance approved: max(needed_wei, 10 ** 27), the second scaled down
Generous == 1000000

ApprovalAmount(needed_wei) == Max(needed_wei, Generous)

\* the wallets the bot may be started on: balance and allowance of the router
Wallets ==
    {[balance |-> b, allowance |-> a] : b \in {50, 1100}, a \in {0, 500, Generous}}

\* the process before main() runs
InitBot ==
    /\ logs = <<>>
    /\ latest = LatestBlock
    /\ tokenDec = [usdt |-> MaxDec, blocksToken |-> MaxDec]
    /\ catalog = NoCatalog
    /\ pool = NoPool
    /\ blocks = NoBlocks
    /\ chain = NoChain
    /\ contracts = DefaultContracts
    /\ last = NoCall
    /\ prev = NoCall
    /\ db = NoDb
    /\ \E w \in Wallets, connected \in BOOLEAN, wallet \in BOOLEAN, private_key \in BOOLEAN :
          bot = [pc |-> "main", connected |-> connected, wallet |-> wallet,
                 private_key |-> private_key, balance |-> w.balance,
                 allowance |-> w.allowance, backoff |-> 0, before |-> 0, usdt_spend |-> 0,
                 seen |-> None, journal |-> <<>>, slept |-> 0, outcome |-> "none",
                 approval |-> None, status |-> None]

\* a slip: the swap straight after the approval was submitted
AfterApprovalNoWait(b) == [b EXCEPT !.pc = "swap"]

\* line 71: the approval's receipt is waited for before the swap
AfterApproval(b) == [b EXCEPT !.pc = "await_approval"]

\* a slip: the except clause sleeping without updating backoff
EndWithoutBackoff(b, nb) ==
    [b EXCEPT !.slept = nb, !.outcome = "exception", !.pc = "loop"]

\* lines 101-105: backoff = next_backoff_seconds(backoff); time.sleep(backoff)
EndWithException(b, nb) ==
    [b EXCEPT !.backoff = nb, !.slept = nb, !.outcome = "exception", !.pc = "loop"]

\* lines 32-46: the checks before the loop and the decimals pre-fetch
Main ==
    /\ bot.pc = "main"
    /\ \/ /\ ~bot.connected
          /\ bot' = [bot EXCEPT !.pc = "exit"]
       \/ /\ bot.connected /\ ~(bot.wallet /\ bot.private_key)
          /\ bot' = [bot EXCEPT !.pc = "exit"]
       \/ /\ bot.connected /\ bot.wallet /\ bot.private_key
          /\ \E decimals_ok \in BOOLEAN :
                bot' = [bot EXCEPT !.pc = IF decimals_ok THEN "loop" ELSE "crashed"]
    /\ UNCHANGED <<analytics, db>>

\* a slip: only an empty wallet skips the cycle
InsufficientWhenEmpty(balance_usdt, usdt_spend) == balance_usdt <= 0

\* line 56: the test that skips a cycle
Insufficient(balance_usdt, usdt_spend) == balance_usdt < usdt_spend

\* lines 52-59: the spend is drawn and the balance read; a balance below
\* the spend ends the cycle after a random delay
BeginCycle ==
    /\ bot.pc = "loop"
    /\ \E usdt_spend \in random_trade_amount_usdt, balance_ok \in BOOLEAN,
          delay \in random_delay_seconds :
          LET b == [bot EXCEPT !.usdt_spend = usdt_spend, !.before = bot.backoff,
                               !.journal = <<>>, !.seen = None, !.outcome = "running",
                               !.slept = 0, !.approval = None, !.status = None]
          IN  bot' = IF ~balance_ok THEN [b EXCEPT !.pc = "except"]
                     ELSE IF Insufficient(bot.balance, usdt_spend)
                     THEN [b EXCEPT !.seen = bot.balance, !.slept = delay,
                                    !.outcome = "skipped", !.pc = "loop"]
                     ELSE [b EXCEPT !.seen = bot.balance, !.pc = "allowance"]
    /\ UNCHANGED <<analytics, db>>

\* lines 62-69: the quote, the gas price and ensure_allowance, which submits
\* an approval when the allowance is below the amount; the ledger mines the
\* approval with status 1 or 0 whether or not the bot waits for it
EnsureAllowance ==
    /\ bot.pc = "allowance"
    /\ \E step \in {"ok", "raise", "raise_after_send"}, mined \in {0, 1} :
          LET sent == [bot EXCEPT !.journal = Append(@, "approve"),
                                  !.approval = mined,
                                  !.allowance = IF mined = 1 THEN ApprovalAmount(bot.usdt_spend)
                                                ELSE @]
          IN  bot' = IF step = "raise" THEN [bot EXCEPT !.pc = "except"]
                     ELSE IF bot.allowance >= bot.usdt_spend THEN [bot EXCEPT !.pc = "swap"]
                     ELSE IF step = "raise_after_send" THEN [sent EXCEPT !.pc = "except"]
                     ELSE AfterApproval(sent)
    /\ UNCHANGED <<analytics, db>>

\* line 71: wait_for_receipt(approve_tx), which raises on a timeout
AwaitApproval ==
    /\ bot.pc = "await_approval"
    /\ \E status \in {bot.approval, None} :
          bot' = IF status = None
                 THEN [bot EXCEPT !.journal = Append(@, "approve_wait_failed"), !.pc = "except"]
                 ELSE [bot EXCEPT !.journal = Append(@, "approve_receipt"), !.pc = "swap"]
    /\ UNCHANGED <<analytics, db>>

\* lines 74-75: swap_usdt_for_blocks; its gas estimate reverts without allowance
Swap ==
    /\ bot.pc = "swap"
    /\ \E step \in {"ok", "raise", "raise_after_send"} :
          bot' = IF step = "raise" \/ bot.allowance < bot.usdt_spend
                 THEN [bot EXCEPT !.pc = "except"]
                 ELSE IF step = "raise_after_send"
                 THEN [bot EXCEPT !.journal = Append(@, "swap"), !.pc = "except"]
                 ELSE [bot EXCEPT !.journal = Append(@, "swap"), !.pc = "await_swap"]
    /\ UNCHANGED <<analytics, db>>

\* lines 77-99: the swap's receipt, the notification and the transaction log
AwaitSwap ==
    /\ bot.pc = "await_swap"
    /\ \E status \in {0, 1, None}, log_ok \in BOOLEAN, delay \in random_delay_seconds,
          nb \in next_backoff_seconds(bot.backoff) :
          LET b == [bot EXCEPT !.balance = IF status = 1 THEN @ - bot.usdt_spend ELSE @,
                               !.status = status,
                               !.journal = Append(@, IF status = None THEN "swap_wait_failed"
                                                     ELSE "swap_receipt")]
          IN  bot' = IF status = None \/ ~log_ok THEN [b EXCEPT !.pc = "except"]
                     ELSE IF status = 1
                     THEN [b EXCEPT !.backoff = 0, !.slept = delay, !.outcome = "success",
                                    !.pc = "loop"]
                     ELSE [b EXCEPT !.backoff = nb, !.slept = nb, !.outcome = "failed",
                                    !.pc = "loop"]
    /\ UNCHANGED <<analytics, db>>

\* lines 101-105: the except clause of the loop
HandleException ==
    /\ bot.pc = "except"
    /\ \E nb \in next_backoff_seconds(bot.backoff) : bot' = EndWithException(bot, nb)
    /\ UNCHANGED <<analytics, db>>

NextBot ==
    \/ Main
    \/ BeginCycle
    \/ EnsureAllowance
    \/ AwaitApproval
    \/ Swap
    \/ AwaitSwap
    \/ HandleException

SpecBot == InitBot /\ [][NextBot]_vars

(***************************************************************************)
(* Token metadata and normalisation on their own.                          *)
(***************************************************************************)
\* the decimals a token may report
DecimalsRange == (0..MaxDec) \cup {6, 18}

\* raw amounts: small ones, a multiple of ten, and a million and a half
RawAmounts == (0..MaxRaw) \cup {10, 1500000}

InitMeta ==
    /\ logs = <<>>
    /\ latest = LatestBlock
    /\ tokenDec \in {[usdt |-> d, blocksToken |-> b] : d \in DecimalsRange, b \in {MaxDec, 18}}
    /\ catalog = NoCatalog
    /\ pool = NoPool
    /\ blocks = NoBlocks
    /\ chain = NoChain
    /\ contracts = DefaultContracts
    /\ last = NoCall
    /\ prev = NoCall
    /\ bot = NoBot
    /\ db = NoDb

\* a call of _get_token_meta(address): a token's address in either spelling,
\* an address without a token contract, a string that is no address, nothing
TokenMeta ==
    /\ \E address \in {Addr(USDT), AddrLc(BLOCKS), Addr(WBNB), Addr(ALICE), BadAddr, NoAddr},
          f \in Faults({"symbol", "decimals"}) :
          last' = Record("get_token_meta", [address |-> address], f,
                         get_token_meta_call(address, f))
    /\ UNCHANGED <<env, prev>>

\* a call of _normalize_amount(amount, decimals)
Normalize ==
    /\ \E amount \in RawAmounts, decimals \in DecimalsRange :
          last' = Record("normalize_amount", [amount |-> amount, decimals |-> decimals], {},
                         Ok(normalize_amount(amount, decimals)))
    /\ UNCHANGED <<env, prev>>

NextMeta == TokenMeta \/ Normalize

SpecMeta == InitMeta /\ [][NextMeta]_vars

(***************************************************************************)
(* Construction: address resolution and contract binding, then the         *)
(* features of each named contract.                                        *)
(***************************************************************************)
\* a contract-less address an override may name
ELSEWHERE == Wallet(8)

\* the other spelling of an address
Respelled(a) == [a EXCEPT !.form = IF @ = "cs" THEN "lc" ELSE "cs"]

\* the names whose manifest field and override vary
VariedNames == {"packageManager", "blocksToken", "usdt"}

\* manifests: absent, unreadable, malformed, no object, and objects giving
\* each varied field no value, an empty one, the deployed address in its
\* other spelling, or a string that is no address
ManifestData ==
    {[k \in {ManifestKey(n) : n \in present} |-> val[k]] :
        present \in SUBSET VariedNames,
        val \in [{ManifestKey(n) : n \in VariedNames} -> {"empty", "respelled", "bad"}]}

ManifestValue(field, kind) ==
    IF kind = "empty" THEN NoAddr
    ELSE IF kind = "bad" THEN BadAddr
    ELSE Respelled(DefaultContracts[IF field = "blocks" THEN "blocksToken" ELSE field])

Manifests ==
    {[state |-> st, data |-> <<>>] : st \in {"missing", "unreadable", "malformed", "not_a_dict"}}
    \cup {[state |-> "ok", data |-> [k \in DOMAIN d |-> ManifestValue(k, d[k])]] :
            d \in {x \in ManifestData : \A k \in DOMAIN x : x[k] # "empty"}
                  \cup {x \in ManifestData : DOMAIN x = {ManifestKey(n) : n \in VariedNames}}}

\* environments: each varied override unset, empty, another valid address,
\* or a string that is no address
Environs ==
    {[k \in {EnvKey(n) : n \in set} |-> val[k]] :
        set \in {{}, {"usdt"}, VariedNames},
        val \in [{EnvKey(n) : n \in VariedNames} -> {NoAddr, Addr(ELSEWHERE), BadAddr}]}

InitConstruct ==
    /\ logs \in {<<>>, ReportUniverse}
    /\ latest = LatestBlock
    /\ tokenDec = [usdt |-> MaxDec, blocksToken |-> 1]
    /\ catalog = PackageCatalog
    /\ pool = NoPool
    /\ blocks = NoBlocks
    /\ chain \in ReportChains \ {NoChain}
    /\ contracts = <<>>
    /\ last = NoCall
    /\ prev = NoCall
    /\ bot = NoBot
    /\ db = NoDb

\* __init__: resolve the addresses and bind the contracts
Construct ==
    /\ contracts = <<>>
    /\ \E manifest \in Manifests, environ \in Environs :
          /\ contracts' = load_contract_addresses(manifest, environ)
          /\ last' = Record("__init__", [manifest |-> manifest, environ |-> environ], {},
                            Ok(contracts'))
    /\ UNCHANGED <<logs, latest, tokenDec, catalog, pool, blocks, chain, prev, bot, db>>

\* a call of a feature of the constructed service
Feature ==
    /\ contracts # <<>>
    /\ \E f \in {{}, {"usdt.decimals", "blocksToken.decimals"}} :
          \/ last' = Record("get_blocks_token_stats", <<>>, f, get_blocks_token_stats(f))
          \/ last' = Record("get_usdt_stats", <<>>, f, get_usdt_stats(f))
          \/ last' = Record("get_treasury_balance", <<>>, f, get_treasury_balance(f))
          \/ last' = Record("get_all_packages", [active_only |-> FALSE], f,
                            get_all_packages(FALSE, f))
          \/ last' = Record("get_referral_payments", [from_block |-> 0, to_block |-> None], f,
                            get_referral_payments(0, None, f))
          \/ last' = Record("get_treasury_usdt_inflows", [from_block |-> 0, to_block |-> None],
                            f, get_treasury_usdt_inflows(0, None, f))
          \/ last' = Record("get_blocks_transfers",
                            [from_block |-> 0, to_block |-> None, holder |-> NoAddr], f,
                            get_blocks_transfers(0, None, NoAddr, f))
    /\ UNCHANGED <<env, prev>>

NextConstruct == Construct \/ Feature

SpecConstruct == InitConstruct /\ [][NextConstruct]_vars

(***************************************************************************)
(* Package Sales: the specification of get_packages_stats.                 *)
(***************************************************************************)
InitPackages ==
    /\ logs \in Ledgers(PurchasedLogs)
    /\ latest = LatestBlock
    /\ tokenDec = [usdt |-> MaxDec, blocksToken |-> MaxDec]
    /\ catalog = PackageCatalog
    /\ pool = NoPool
    /\ blocks = NoBlocks
    /\ chain = NoChain
    /\ contracts = DefaultContracts
    /\ last = NoCall
    /\ prev = NoCall
    /\ bot = NoBot
    /\ db = NoDb

PkgRecord(from_block, to_block, f) ==
    Record("get_packages_stats", [from_block |-> from_block, to_block |-> to_block], f,
           get_packages_stats(from_block, to_block, f))

\* a call of get_packages_stats(from_block, to_block)
PackagesStats ==
    /\ \E from_block \in {None, 0, LatestBlock - DefaultWindow \div 2},
          to_block \in {None, LatestBlock},
          f \in Faults(PkgSites) :
          last' = PkgRecord(from_block, to_block, f)
    /\ prev' = NoCall
    /\ UNCHANGED env

\* the same call once more: same arguments, same ledger, same remote faults
PackagesStatsAgain ==
    /\ last.op = "get_packages_stats"
    /\ last' = PkgRecord(last.from_block, last.to_block, last.f)
    /\ prev' = last
    /\ UNCHANGED env

NextPackages == PackagesStats \/ PackagesStatsAgain

SpecPackages == InitPackages /\ [][NextPackages]_vars

\* C1: a call of get_packages_stats issues at most two log queries; when the
\* first returns no log and to_block is known it issues exactly one more, over
\* a wider window (an earlier fromBlock) ending at the same toBlock; when the
\* first returns a log it issues no second one.
C1_BackfillOnceWider ==
    last.op = "get_packages_stats" =>
        LET q == last.queries
        IN  /\ Len(q) <= 2
            /\ (Len(q) >= 1 /\ q[1].n = 0 /\ q[1].toBlock # None) =>
                   /\ Len(q) = 2
                   /\ q[2].toBlock = q[1].toBlock
                   /\ q[2].fromBlock < q[1].fromBlock
            /\ (Len(q) >= 1 /\ q[1].n >= 1) => Len(q) = 1

InBlocks(lg, from_block, to_block) ==
    lg.blockNumber >= from_block /\ lg.blockNumber <= to_block

\* the number a payload encodes, read as one big-endian integer
PayloadAmount(lg) == BytesToInt(lg.data)

RECURSIVE SumAmounts(_)
SumAmounts(I) ==
    IF I = {} THEN 0
    ELSE LET i == CHOOSE j \in I : TRUE
         IN  PayloadAmount(logs[i]) + SumAmounts(I \ {i})

RECURSIVE SumOf(_, _)
SumOf(fn, D) ==
    IF D = {} THEN 0
    ELSE LET k == CHOOSE j \in D : TRUE IN fn[k] + SumOf(fn, D \ {k})

RECURSIVE DecSumOf(_, _)
DecSumOf(fn, D) ==
    IF D = {} THEN DecZero
    ELSE LET k == CHOOSE j \in D : TRUE IN DecAdd(fn[k], DecSumOf(fn, D \ {k}))

\* the decimals a method divides by: the token's, or 18 when reading them fails
DecimalsUsed(name) ==
    IF (name \o ".decimals") \in last.f THEN 18 ELSE tokenDec[name]

\* the stable coin's Transfer logs from the package manager to the treasury
\* in the blocks of the last call
InflowLogs ==
    {i \in 1..Len(logs) :
        /\ logs[i].address = USDT
        /\ logs[i].topics = <<Keccak("Transfer(address,address,uint256)"),
                              WordOf(PM), WordOf(TREASURY)>>
        /\ InBlocks(logs[i], last.from_block, last.to_block)}

\* C8: get_treasury_usdt_inflows totals exactly the amounts of the stable
\* coin's Transfer logs of the range sent by the package manager to the
\* treasury, divided by 10^decimals (the coin's decimals; 18 when they cannot
\* be read), and lists one event for each; logs with another sender, recipient,
\* token or block add nothing.  Over [1000, 2000], amounts 100_000000,
\* 250_000000 and 75_000000 with 6 decimals total 425.
C8_TreasuryInflows ==
    (last.op = "get_treasury_usdt_inflows" /\ ~last.caught) =>
        /\ last.v.decimals = DecimalsUsed("usdt")
        /\ last.v.total_usdt = DivPow10(SumAmounts(InflowLogs), DecimalsUsed("usdt"))
        /\ Len(last.v.events) = Cardinality(InflowLogs)
        /\ (/\ logs = << TransferLog(USDT, 1000, PM, TREASURY, 100000000),
                         TransferLog(USDT, 1500, PM, TREASURY, 250000000),
                         TransferLog(USDT, 2000, PM, TREASURY, 75000000) >>
            /\ last.from_block = 1000 /\ last.to_block = 2000 /\ last.f = {})
           => last.v.total_usdt = [m |-> 425, e |-> 0]

\* inflows totalled on a ledger that also holds a transfer to another
\* recipient and one from another sender in the range
C8_Witness ==
    /\ last.op = "get_treasury_usdt_inflows" /\ ~last.caught /\ last.f = {}
    /\ Cardinality(InflowLogs) = 1
    /\ Len(logs) = 3
    /\ \A i \in 1..Len(logs) :
          logs[i].address = USDT /\ InBlocks(logs[i], last.from_block, last.to_block)

\* the ReferralPaid logs of the last call's range that carry both indexed topics
ReferralLogs ==
    {i \in 1..Len(logs) :
        /\ logs[i].address = PM
        /\ Len(logs[i].topics) >= 3
        /\ logs[i].topics[1] = Keccak("ReferralPaid(address,address,uint256)")
        /\ InBlocks(logs[i], last.from_block, last.to_block)}

ReferralLogsOf(r) == {i \in ReferralLogs : logs[i].topics[2] = WordOf(r)}

Referrers == {r \in {PM, TREASURY, ALICE, BOB} : ReferralLogsOf(r) # {}}

\* C9: get_referral_payments returns, for each referrer of a ReferralPaid log
\* of the range and for no one else, the sum of that referrer's rewards divided
\* by 10^decimals of the reward token (18 when they cannot be read) and the
\* number of that referrer's logs; the grand total is the sum of the
\* per-referrer rewards and the counts add up to the number of events listed.
\* Rewards of 1 and 2 tokens for one referrer and 0.5 for another give
\* {3.0, 2}, {0.5, 1} and a total of 3.5.
C9_ReferralPayments ==
    (last.op = "get_referral_payments" /\ ~last.caught) =>
        LET by == last.v.byReferrer
            dec == DecimalsUsed("blocksToken")
        IN  /\ DOMAIN by = {Addr(r) : r \in Referrers}
            /\ \A r \in Referrers :
                  /\ by[Addr(r)].reward = DivPow10(SumAmounts(ReferralLogsOf(r)), dec)
                  /\ by[Addr(r)].count = Cardinality(ReferralLogsOf(r))
            /\ last.v.total = DecSumOf([k \in DOMAIN by |-> by[k].reward], DOMAIN by)
            /\ SumOf([k \in DOMAIN by |-> by[k].count], DOMAIN by) = Len(last.v.events)
            /\ (/\ logs = SubSeq(ReferralUniverse, 1, 3)
                /\ last.from_block = 0 /\ last.f = {})
               => /\ by = (Addr(ALICE) :> [reward |-> [m |-> 3, e |-> 0], count |-> 2]
                        @@ Addr(BOB) :> [reward |-> [m |-> 5, e |-> 1], count |-> 1])
                  /\ last.v.total = [m |-> 35, e |-> 1]

\* the two-referrer scenario: three payments, two referrers
C9_Witness ==
    /\ last.op = "get_referral_payments" /\ ~last.caught /\ last.f = {}
    /\ logs = SubSeq(ReferralUniverse, 1, 3)
    /\ last.from_block = 0
    /\ Cardinality(Referrers) = 2

\* the records a call counted: purchases, referral events, listed events
Counted ==
    CASE last.op = "get_packages_stats" ->
            SumOf([i \in 1..Len(last.v) |-> last.v[i].total_purchases], 1..Len(last.v))
      [] last.op = "get_referral_payments" ->
            SumOf([k \in DOMAIN last.v.byReferrer |-> last.v.byReferrer[k].count],
                  DOMAIN last.v.byReferrer)
      [] OTHER -> Len(last.v.events)

\* the logs a call fetched whose payload holds at least one 32-byte word
WholeLogs == {i \in 1..Len(last.fetched) : Len(last.fetched[i].data) >= 32}

\* C2: in every aggregator a fetched log whose payload is shorter than 32
\* bytes is skipped: the call still returns its result, and what it counted
\* is no more than the fetched logs with a whole payload.
C2_ShortPayloadSkipped ==
    (last.op \in {"get_packages_stats", "get_referral_payments", "get_taxes_collected",
                  "get_treasury_usdt_inflows", "get_blocks_transfers"}
        /\ "fetched" \in DOMAIN last) =>
        /\ ~last.caught
        /\ Counted <= Cardinality(WholeLogs)

\* the pair contract price discovery resolves: the override, else the factory's
ResolvedPair == IF Truthy(pool.override) THEN pool.override.id ELSE pool.getPair

\* C7: _get_blocks_usdt_price returns None whenever the pool's two tokens are
\* not BLOCKS and USDT, one each, and whenever the BLOCKS reserve is zero;
\* otherwise (the pool resolved and read) it returns a price p with
\* p * (BLOCKS reserve / 10^BLOCKS decimals) = USDT reserve / 10^USDT decimals,
\* whichever of token0 and token1 is BLOCKS.  Under remote faults it returns
\* that price or None.
C7_Price ==
    last.op = "get_blocks_usdt_price" =>
        IF ResolvedPair \notin DOMAIN pool.pairs THEN last.v = Absent
        ELSE
        LET ps == pool.pairs[ResolvedPair]
            is_pair == {ps.token0, ps.token1} = {BLOCKS, USDT}
            rB == IF ps.token0 = BLOCKS THEN ps.reserve0 ELSE ps.reserve1
            rU == IF ps.token0 = BLOCKS THEN ps.reserve1 ELSE ps.reserve0
            right == /\ ~last.v.none
                     /\ last.v.x.num * rB * Pow10(tokenDec.usdt)
                            = last.v.x.den * rU * Pow10(tokenDec.blocksToken)
                     /\ last.v.x.den > 0
        IN  IF ~is_pair \/ rB = 0 THEN last.v = Absent
            ELSE IF last.f = {} THEN right
            ELSE last.v = Absent \/ right

\* a price returned for a pool whose token0 is USDT and whose two tokens
\* differ in decimals and in reserve
C7_Witness ==
    /\ last.op = "get_blocks_usdt_price" /\ ~last.v.none
    /\ pool.pairs[ResolvedPair].token0 = USDT
    /\ tokenDec.usdt # tokenDec.blocksToken
    /\ pool.pairs[ResolvedPair].reserve0 # pool.pairs[ResolvedPair].reserve1

(***************************************************************************)
(* The reports.                                                            *)
(***************************************************************************)
\* a metric's result that is an error marker
Marked(x) == DOMAIN x = {"error"}

\* C3: get_reports_summary always returns range, revenue.treasury_usd,
\* revenue.taxes_usd and referrals with its total and byReferrer; when an
\* aggregator or the latest-block lookup fails the affected fields are there
\* with zero or empty values.
C3_SummaryFields ==
    last.op = "get_reports_summary" =>
        /\ {"range", "revenue", "referrals"} \subseteq DOMAIN last.v
        /\ {"from", "to"} \subseteq DOMAIN last.v.range
        /\ {"treasury_usd", "taxes_usd"} \subseteq DOMAIN last.v.revenue
        /\ {"total", "byReferrer"} \subseteq DOMAIN last.v.referrals
        /\ "treasury.get_logs" \in last.f => last.v.revenue.treasury_usd = DecZero
        /\ "taxes.get_logs" \in last.f => last.v.revenue.taxes_usd = DecZero
        /\ "referrals.get_logs" \in last.f =>
              last.v.referrals.total = DecZero /\ last.v.referrals.byReferrer = <<>>

\* the entry of a metric family in the last composite result, and the remote
\* calls of the family
Families ==
    IF last.op = "get_comprehensive_stats"
    THEN {[entry |-> last.v.network, sites |-> NetworkSites \ {"is_connected"}],
          [entry |-> last.v.blocksToken, sites |-> BlocksTokenSites],
          [entry |-> last.v.usdt, sites |-> UsdtSites],
          [entry |-> last.v.treasury, sites |-> TreasurySites]}
    ELSE {[entry |-> [value |-> last.v.revenue.treasury_usd] , sites |-> {"treasury.get_logs"}],
          [entry |-> [value |-> last.v.revenue.taxes_usd], sites |-> {"taxes.get_logs"}],
          [entry |-> last.v.referrals, sites |-> {"referrals.get_logs"}]}

\* C6: in get_comprehensive_stats and get_reports_summary, a metric family
\* one of whose remote calls failed carries an explicit error marker, and the
\* families none of whose calls failed are computed (carry no marker); the
\* price's marker is the absent value.
C6_ErrorMarkers ==
    (last.op \in {"get_comprehensive_stats", "get_reports_summary"} /\ ~Marked(last.v)) =>
        /\ \A fam \in Families :
              IF fam.sites \cap last.f # {} THEN Marked(fam.entry) ELSE ~Marked(fam.entry)
        /\ last.op = "get_comprehensive_stats" =>
              (last.f \cap PriceSites # {} /\ ~Truthy(pool.override)
                    => last.v.market.blocksPriceUsd = Absent)

(***************************************************************************)
(* Gas spend.                                                              *)
(***************************************************************************)
\* the distinct addresses of the allow-list of the last call
AllowListed ==
    {to_checksum_address(last.addresses[i]).v :
        i \in {j \in 1..Len(last.addresses) : to_checksum_address(last.addresses[j]).ok}}

WellFormedAllowList ==
    \A i \in 1..Len(last.addresses) :
        ~Truthy(last.addresses[i]) \/ to_checksum_address(last.addresses[i]).ok

\* the transactions of the scanned blocks sent by address a
SentBy(a) ==
    LET tb == IF last.to_block = None THEN latest ELSE last.to_block
        fb == IF last.from_block = None THEN Max(0, tb - last.max_blocks) ELSE last.from_block
    IN  {<<bn, i>> \in UNION {{bn} \X DOMAIN blocks[bn] : bn \in DOMAIN blocks} :
            /\ bn >= Max(fb, tb - last.max_blocks) /\ bn <= tb
            /\ to_checksum_address(blocks[bn][i].from) = Ok(a)}

\* C10: a gas-spend result lists exactly one entry for every distinct address
\* of the allow-list and none for any other address, whatever the blocks
\* hold; the entry counts the address's transactions in the scanned blocks,
\* and is {gasBNB: 0, txCount: 0} when there are none.  The call returns
\* such a result whenever no remote read fails, the allow-list is well
\* formed and the range ends within the chain.
C10_GasEntries ==
    last.op = "get_gas_spend" =>
        /\ (last.f = {} /\ WellFormedAllowList
              /\ (last.to_block = None \/ last.to_block <= latest)) => ~Marked(last.v)
        /\ ~Marked(last.v) =>
              /\ {e.address : e \in last.v.byAddress} = AllowListed
              /\ Cardinality(last.v.byAddress) = Cardinality(AllowListed)
              /\ \A e \in last.v.byAddress :
                    /\ e.txCount = Cardinality(SentBy(e.address))
                    /\ e.txCount = 0 => e.gasBNB = DecZero

\* a result with an entry of zero for one address and a counted transaction
\* for another
C10_Witness ==
    /\ last.op = "get_gas_spend" /\ ~Marked(last.v)
    /\ \E e \in last.v.byAddress : e.txCount = 0 /\ e.gasBNB = DecZero
    /\ \E e \in last.v.byAddress : e.txCount > 0
    /\ \E bn \in DOMAIN blocks : \E i \in DOMAIN blocks[bn] :
          /\ Truthy(blocks[bn][i].from)
          /\ to_checksum_address(blocks[bn][i].from).v \notin AllowListed

(***************************************************************************)
(* The boundary of the public entry points.                               *)
(***************************************************************************)
EntryPoints ==
    {"is_connected", "get_latest_block", "get_token_info", "get_liquidity_stats",
     "get_all_packages", "get_packages_stats", "get_referral_payments",
     "get_taxes_collected", "get_treasury_usdt_inflows", "get_blocks_transfers",
     "get_vesting_for_wallets", "get_gas_spend", "get_reports_summary",
     "get_comprehensive_stats"}

\* C5: every public entry point returns a value under every combination of
\* failing remote calls, malformed configuration and malformed logs; no
\* exception passes its boundary.
C5_NeverRaises ==
    last.op \in EntryPoints => last.ok /\ "v" \in DOMAIN last

\* a gas-spend call whose scan raised and that returned the error value
C5_Witness ==
    /\ last.op = "get_gas_spend" /\ last.ok /\ last.caught
    /\ "get_block" \in last.f
    /\ Marked(last.v)

(***************************************************************************)
(* Liquidity.                                                              *)
(***************************************************************************)
\* the snapshots of the last liquidity result with a label
Snapshots(label) ==
    {i \in DOMAIN last.v.pools : last.v.pools[i].label = label}

\* C11: in get_liquidity_stats, total_liquidity_usd and daily_volume_usd are
\* the primary (BLOCKS/USDT) snapshot's TVL and volume, zero without one, and
\* never include the secondary (BLOCKS/BNB) pool's, configured or not;
\* active_pools is the number of snapshots in pools; with only the primary
\* pool configured and readable, active_pools is 1.
C11_PrimaryOnly ==
    (last.op = "get_liquidity_stats" /\ ~Marked(last.v)) =>
        /\ last.v.active_pools = Len(last.v.pools)
        /\ Cardinality(Snapshots("BLOCKS/USDT")) <= 1
        /\ \A i \in Snapshots("BLOCKS/USDT") :
              /\ last.v.total_liquidity_usd = last.v.pools[i].tvl_usd
              /\ last.v.daily_volume_usd = last.v.pools[i].volume24h_usd
        /\ Snapshots("BLOCKS/USDT") = {} =>
              last.v.total_liquidity_usd = DecZero /\ last.v.daily_volume_usd = DecZero
        /\ (last.f = {} /\ ~Truthy(pool.bnb_override) /\ ResolvedPair \in DOMAIN pool.pairs)
              => last.v.active_pools = 1

\* both pools listed, the secondary one with a TVL and a volume of its own
C11_Witness ==
    /\ last.op = "get_liquidity_stats" /\ ~Marked(last.v)
    /\ last.v.active_pools = 2
    /\ \E i \in Snapshots("BLOCKS/BNB") :
          last.v.pools[i].tvl_usd # DecZero /\ last.v.pools[i].volume24h_usd # DecZero
    /\ last.v.total_liquidity_usd # DecZero

(***************************************************************************)
(* Construction.                                                           *)
(***************************************************************************)
\* the manifest's value for a name, when the manifest is readable and the
\* value is not empty
ManifestGives(name) ==
    /\ last.manifest.state = "ok"
    /\ ManifestKey(name) \in DOMAIN last.manifest.data
    /\ Truthy(last.manifest.data[ManifestKey(name)])

EnvGives(name) ==
    /\ EnvKey(name) \in DOMAIN last.environ
    /\ Truthy(last.environ[EnvKey(name)])

\* C12: for each named contract the resolved address is the environment
\* override when one is set and not empty, else the manifest's value when
\* the manifest is readable and has a non-empty value for the name, else the
\* hardcoded fallback; with a missing, unreadable or malformed manifest the
\* result is the fallback with the overrides.
C12_AddressResolution ==
    last.op = "__init__" =>
        /\ DOMAIN contracts = DOMAIN DefaultContracts
        /\ \A name \in DOMAIN DefaultContracts :
              contracts[name] =
                 IF EnvGives(name) THEN last.environ[EnvKey(name)]
                 ELSE IF ManifestGives(name) THEN last.manifest.data[ManifestKey(name)]
                 ELSE DefaultContracts[name]
        /\ last.manifest.state # "ok" =>
              contracts = OverrideFromEnv(DefaultContracts, last.environ)

\* a construction in which one name comes from each source, with an empty
\* override and an empty manifest value passed over
C12_Witness ==
    /\ last.op = "__init__"
    /\ EnvGives("usdt") /\ ManifestGives("usdt")
    /\ ~EnvGives("blocksToken") /\ ManifestGives("blocksToken")
    /\ EnvKey("blocksToken") \in DOMAIN last.environ
    /\ ~EnvGives("packageManager") /\ ~ManifestGives("packageManager")
    /\ "packageManager" \in DOMAIN last.manifest.data
    /\ contracts.usdt = Addr(ELSEWHERE)
    /\ contracts.blocksToken = AddrLc(BLOCKS)
    /\ contracts.packageManager = Addr(PM)

\* the address resolved for a name is an address; it is the deployed one
ValidName(name) == to_checksum_address(contracts[name]).ok

DeployedName(name) ==
    ValidName(name) /\ to_checksum_address(contracts[name]).v.id = DefaultContracts[name].id

\* the named contracts a feature reads its data from
Needs(op) ==
    CASE op = "get_blocks_token_stats" -> {"blocksToken"}
      [] op = "get_usdt_stats" -> {"usdt"}
      [] op = "get_treasury_balance" -> {"treasury"}
      [] op = "get_all_packages" -> {"packageManager"}
      [] op = "get_referral_payments" -> {"packageManager"}
      [] op = "get_treasury_usdt_inflows" -> {"usdt", "packageManager", "treasury"}
      [] op = "get_blocks_transfers" -> {"blocksToken"}
      [] OTHER -> {}

\* an 'unavailable', empty or error result
Unavailable(v) == v = <<>> \/ Marked(v)

\* the result of a feature whose contracts are all in place
Computed(op, v) ==
    CASE op = "get_blocks_token_stats" ->
            v = [address |-> contracts.blocksToken, totalSupply |-> chain.totalSupply[BLOCKS],
                 decimals |-> tokenDec.blocksToken, symbol |-> "BLOCKS"]
      [] op = "get_usdt_stats" ->
            v = [address |-> contracts.usdt, totalSupply |-> chain.totalSupply[USDT],
                 decimals |-> tokenDec.usdt, symbol |-> "USDT"]
      [] op = "get_treasury_balance" ->
            /\ ~Marked(v) /\ v.balances.bnb = chain.balance[TREASURY]
            /\ "blocks" \in DOMAIN v.balances <=> ValidName("blocksToken")
            /\ "usdt" \in DOMAIN v.balances <=> ValidName("usdt")
      [] op = "get_all_packages" -> Len(v) = Cardinality(DOMAIN catalog.pkgs)
      [] op = "get_referral_payments" ->
            /\ ~Marked(v)
            /\ Len(v.events) = Cardinality({i \in DOMAIN logs :
                    logs[i].topics[1] = Keccak("ReferralPaid(address,address,uint256)")})
      [] op = "get_treasury_usdt_inflows" ->
            /\ ~Marked(v)
            /\ Len(v.events) = Cardinality({i \in DOMAIN logs :
                    logs[i].topics = <<Keccak("Transfer(address,address,uint256)"),
                                       WordOf(PM), WordOf(TREASURY)>>})
      [] op = "get_blocks_transfers" -> ~Marked(v)

CatalogIdsRead(f) ==
    LET package_list == get_all_packages(FALSE, f).v
    IN  {package_list[i].packageId : i \in 1..Len(package_list)}

\* the package ids named by the Purchased logs a call aggregated
PurchasedIds(fetched) ==
    {WordToInt(fetched[i].topics[3]) :
        i \in {j \in 1..Len(fetched) : Len(fetched[j].topics) >= 3}}

RowsOf(v, pid) == {i \in 1..Len(v) : v[i].packageId = pid}

ZeroFilled(row) ==
    /\ row.total_purchases = 0
    /\ row.successful_purchases = 0
    /\ row.total_usd = DecZero
    /\ row.avg_amount.num = 0

\* the call got as far as reading the catalog: the package manager address
\* is set and the latest block could be determined
ReadsCatalog ==
    /\ last.op = "get_packages_stats"
    /\ Truthy(contracts.packageManager)
    /\ ~("is_connected" \notin last.f /\ "block_number" \in last.f)

\* C14: whenever get_packages_stats reads a package catalog, its output has
\* exactly one entry for every package id of the catalog and for every package
\* id seen in a matching Purchased log, and no other entry; a catalog package
\* with no matching event has zero counts and zero sums; also when a log
\* query fails.
C14_CatalogEntries ==
    ReadsCatalog =>
        LET ids == CatalogIdsRead(last.f) \cup PurchasedIds(last.fetched)
        IN  /\ \A pid \in ids : Cardinality(RowsOf(last.v, pid)) = 1
            /\ \A i \in 1..Len(last.v) : last.v[i].packageId \in ids
            /\ \A pid \in CatalogIdsRead(last.f) \ PurchasedIds(last.fetched) :
                   \A i \in RowsOf(last.v, pid) : ZeroFilled(last.v[i])

\* the same statement for the calls whose first log query succeeds
C14_WhenQueryAnswers ==
    (ReadsCatalog /\ "get_logs" \notin last.f) => C14_CatalogEntries

(***************************************************************************)
(* Token Transfers: the holder filter.                                     *)
(***************************************************************************)
\* a Transfer log of the token in the blocks of the last call that carries
\* both indexed topics and, when a holder is given, names the holder as
\* sender or recipient
WantedTransfer(lg) ==
    /\ lg.address = BLOCKS
    /\ lg.topics[1] = Keccak("Transfer(address,address,uint256)")
    /\ InBlocks(lg, last.from_block, last.to_block)
    /\ Len(lg.topics) >= 3
    /\ Truthy(last.holder) =>
          \/ lg.topics[2] = WordOf(last.holder.id)
          \/ lg.topics[3] = WordOf(last.holder.id)

WantedTransfers == SelectSeq(logs, WantedTransfer)

\* C15: get_blocks_transfers with a holder returns exactly the token's
\* Transfer logs of the range whose sender or recipient is the holder, each
\* once and in ledger order, and every returned event names the holder as
\* from or to (checksummed); without a holder it returns every Transfer log
\* of the range that carries both address topics.
C15_HolderFilter ==
    (last.op = "get_blocks_transfers" /\ ~last.caught) =>
        LET ev == last.v.events
        IN  /\ Len(ev) = Len(WantedTransfers)
            /\ \A k \in 1..Len(ev) :
                  /\ ev[k].from = Addr(WantedTransfers[k].topics[2].lo)
                  /\ ev[k].to = Addr(WantedTransfers[k].topics[3].lo)
                  /\ ev[k].amount = PayloadAmount(WantedTransfers[k])
                  /\ ev[k].blockNumber = WantedTransfers[k].blockNumber
                  /\ Truthy(last.holder) =>
                        \/ ev[k].from = Addr(last.holder.id)
                        \/ ev[k].to = Addr(last.holder.id)

\* a holder given in lower case that received one transfer of the range and
\* sent none, on a ledger that also holds a transfer between two others
C15_Witness ==
    /\ last.op = "get_blocks_transfers" /\ ~last.caught
    /\ last.holder = AddrLc(BOB)
    /\ Len(last.v.events) = 1
    /\ last.v.events[1].to = Addr(BOB) /\ last.v.events[1].from = Addr(ALICE)
    /\ \E i \in 1..Len(logs) :
          /\ logs[i].address = BLOCKS /\ Len(logs[i].topics) >= 3
          /\ InBlocks(logs[i], last.from_block, last.to_block)
          /\ logs[i].topics[2] = WordOf(PM)

(***************************************************************************)
(* Gas spend: the totals.                                                  *)
(***************************************************************************)
\* what a transaction cost: the receipt's gasUsed times its effective price,
\* or times the transaction's own gas price when the receipt names none
CostOf(tx) ==
    tx.gasUsed * (IF tx.effectiveGasPrice = None THEN tx.gasPrice ELSE tx.effectiveGasPrice)

\* the sum of the costs of a set of transactions, given as <<block, index>>
\* pairs and added up in no particular order
RECURSIVE SumCost(_)
SumCost(S) ==
    IF S = {} THEN 0
    ELSE LET p == CHOOSE q \in S : TRUE
         IN  CostOf(blocks[p[1]][p[2]]) + SumCost(S \ {p})

\* C16: for each allow-listed address the gas total of a gas-spend result is
\* the sum, over the transactions of the scanned blocks sent by that address
\* taken in any order, of gasUsed times the receipt's effective gas price (the
\* transaction's gas price when the receipt has none), expressed in units of
\* 10^18 wei; txCount is the number of those transactions.
C16_GasTotals ==
    (last.op = "get_gas_spend" /\ ~Marked(last.v)) =>
        \A e \in last.v.byAddress :
            /\ e.gasBNB = DivPow10(SumCost(SentBy(e.address)), 18)
            /\ e.txCount = Cardinality(SentBy(e.address))

\* an address with two transactions in the scanned blocks, one priced by the
\* receipt's effective price and one by the transaction's gas price
C16_Witness ==
    /\ last.op = "get_gas_spend" /\ ~Marked(last.v)
    /\ \E e \in last.v.byAddress :
          /\ e.txCount = 2
          /\ e.gasBNB = DivPow10(MaxGas * 1 + 1 * 3, 18)
          /\ \E p \in SentBy(e.address) : blocks[p[1]][p[2]].effectiveGasPrice = None
          /\ \E p \in SentBy(e.address) : blocks[p[1]][p[2]].effectiveGasPrice # None

(***************************************************************************)
(* Liquidity: the estimated TVL of a snapshot.                             *)
(***************************************************************************)
\* the raw reserve of the stable coin in a pair, None when the pair holds none
StableReserve(p) ==
    IF p.token0 = USDT THEN p.reserve0
    ELSE IF p.token1 = USDT THEN p.reserve1
    ELSE None

\* the symbol() and decimals() calls of the last call answered
MetadataRead == last.f \cap {"symbol", "decimals"} = {}

DataWord(data, k) == BytesToInt(SubSeq(data, 32 * (k - 1) + 1, 32 * k))

\* the Swap logs of a pair in the window [latest - 28800, latest] that carry
\* at least four 32-byte words
SwapLogsOf(pair) ==
    {i \in 1..Len(logs) :
        /\ logs[i].address = pair
        /\ logs[i].topics[1] = Keccak("Swap(address,uint256,uint256,uint256,uint256,address)")
        /\ InBlocks(logs[i], Max(0, latest - 28800), latest)
        /\ Len(logs[i].data) >= 4 * 32}

\* amountIn plus amountOut of the stable coin's side of pair p in a payload;
\* nothing when the pair has no stable side
StableLegs(p, data) ==
    IF p.token0 = USDT THEN DataWord(data, 1) + DataWord(data, 3)
    ELSE IF p.token1 = USDT THEN DataWord(data, 2) + DataWord(data, 4)
    ELSE 0

RECURSIVE SumLegs(_, _)
SumLegs(p, I) ==
    IF I = {} THEN 0
    ELSE LET i == CHOOSE j \in I : TRUE
         IN  StableLegs(p, logs[i].data) + SumLegs(p, I \ {i})

\* C18: when the latest block is known, the 24h volume of every pool snapshot
\* is the sum, over the Swap logs of the pair in [latest - 28800, latest] that
\* carry at least four 32-byte data words, of the stable side's amountIn plus
\* amountOut, divided by 10^decimals of the stable coin; the other token's
\* legs add nothing and Swap logs with fewer than four words are skipped; a
\* failing log query gives a volume of zero and the snapshot is still listed.
C18_Volume24h ==
    (last.op = "get_liquidity_stats" /\ ~Marked(last.v) /\ "is_connected" \notin last.f) =>
        /\ \A i \in DOMAIN last.v.pools :
              LET snap == last.v.pools[i]
                  p == pool.pairs[snap.address.id]
              IN  snap.volume24h_usd =
                    IF "swap.get_logs" \in last.f \/ ~MetadataRead THEN DecZero
                    ELSE Canon([m |-> SumLegs(p, SwapLogsOf(snap.address.id)),
                                e |-> tokenDec.usdt])
        /\ (last.f = {"swap.get_logs"} /\ ResolvedPair \in DOMAIN pool.pairs)
              => Snapshots("BLOCKS/USDT") # {}

\* no Swap log of the ledger ends in a partial word
WholeWords ==
    \A i \in 1..Len(logs) : Len(logs[i].data) % 32 = 0

\* the same statement on the ledgers whose payloads are made of whole words
C18_WhenWholeWords == WholeWords => C18_Volume24h

(***************************************************************************)
(* Token metadata.                                                         *)
(***************************************************************************)
\* the address names a token contract and the symbol() and decimals() calls
\* of the last call answer
MetaAnswers ==
    /\ last.address.form \in {"cs", "lc"}
    /\ last.address.id \in TokenIds
    /\ MetadataRead

\* C19: _get_token_meta never raises; when the symbol or the decimals call
\* fails it returns a record with decimals 18 and an error entry; when both
\* succeed it returns the checksummed address with the token's on-chain symbol
\* and decimals and no error entry.
C19_TokenMeta ==
    last.op = "get_token_meta" =>
        /\ last.ok
        /\ ~MetaAnswers =>
              /\ last.v.decimals = 18
              /\ "error" \in DOMAIN last.v
        /\ MetaAnswers =>
              last.v = [address |-> Addr(last.address.id),
                        symbol |-> SymbolAt(last.address.id),
                        decimals |-> DecimalsAt(last.address.id)]

\* a lookup whose decimals call failed while the symbol call answered
C19_Witness ==
    /\ last.op = "get_token_meta"
    /\ last.address = Addr(USDT)
    /\ last.f = {"decimals"}
    /\ tokenDec.usdt = 6
    /\ last.v.decimals = 18 /\ "error" \in DOMAIN last.v

(***************************************************************************)
(* Normalisation.                                                          *)
(***************************************************************************)
\* C20: normalize(raw, decimals) is raw / 10^decimals, that is, the result
\* times 10^decimals is raw, for every raw amount and decimals drawn; it is
\* written without trailing zeros; normalize(1500000, 6) = 1.5 and
\* normalize(0, d) = 0 for every d, 18 included.
C20_Normalize ==
    last.op = "normalize_amount" =>
        LET r == last.v
        IN  /\ last.amount = 0 => r = DecZero
            /\ last.amount > 0 =>
                  /\ r.e >= 0 /\ r.e <= last.decimals
                  /\ r.m * Pow10(last.decimals - r.e) = last.amount
                  /\ r.e = 0 \/ r.m % 10 # 0
            /\ (last.amount = 1500000 /\ last.decimals = 6) => r = [m |-> 15, e |-> 1]

\* 1500000 normalised with 6 decimals
C20_Witness ==
    /\ last.op = "normalize_amount"
    /\ last.amount = 1500000 /\ last.decimals = 6
    /\ last.v = [m |-> 15, e |-> 1]

\* zero normalised with 18 decimals
C20_WitnessZero ==
    /\ last.op = "normalize_amount"
    /\ last.amount = 0 /\ last.decimals = 18
    /\ last.v = DecZero

(***************************************************************************)
(* Aggregators: logs with too few topics.                                  *)
(***************************************************************************)
\* the fetched logs that carry the event's two indexed parameters
IndexedLogs == {i \in 1..Len(last.fetched) : Len(last.fetched[i].topics) >= 3}

RECURSIVE SumFetched(_)
SumFetched(I) ==
    IF I = {} THEN 0
    ELSE LET i == CHOOSE j \in I : TRUE
         IN  PayloadAmount(last.fetched[i]) + SumFetched(I \ {i})

\* C21: in the referral and the tax aggregator a fetched log with fewer
\* topics than the event's indexed parameters require is skipped: the events
\* listed are the fetched logs with all their topics, the total is the sum of
\* their amounts, and the call still returns its result.
C21_ShortTopicsSkipped ==
    (last.op \in {"get_referral_payments", "get_taxes_collected"} /\ "fetched" \in DOMAIN last) =>
        /\ ~last.caught
        /\ Len(last.v.events) = Cardinality(IndexedLogs)
        /\ last.op = "get_referral_payments" =>
              last.v.total = DivPow10(SumFetched(IndexedLogs), DecimalsUsed("blocksToken"))
        /\ last.op = "get_taxes_collected" =>
              last.v.total_usdt = DivPow10(SumFetched(IndexedLogs), DecimalsUsed("usdt"))

\* the same statement for the referral aggregator alone
C21_ReferralsOnly ==
    last.op = "get_referral_payments" => C21_ShortTopicsSkipped

(***************************************************************************)
(* Pool resolution.                                                        *)
(***************************************************************************)
OverrideSet == Truthy(pool.override)

\* no override, and the factory answered the zero address
FactoryZero == ~OverrideSet /\ "getPair" \notin last.f /\ pool.getPair = 0

\* the result of the last call had the factory lookup failed, and had it not
SameWithoutFactory ==
    CASE last.op = "get_blocks_usdt_price" ->
            get_blocks_usdt_price(last.f \cup {"getPair"})
              = get_blocks_usdt_price(last.f \ {"getPair"})
      [] last.op = "get_liquidity_stats" ->
            get_liquidity_stats(last.f \cup {"getPair"})
              = get_liquidity_stats(last.f \ {"getPair"})

\* the override decides the pool when there is one and the factory is then
\* not consulted; the factory's pair is the pool otherwise; the zero address
\* is no pool: no price, no primary snapshot, totals of zero, nothing read at
\* the zero address
ResolutionRules ==
    /\ OverrideSet => SameWithoutFactory
    /\ last.op = "get_blocks_usdt_price" =>
          (FactoryZero => last.v = Absent)
    /\ (last.op = "get_liquidity_stats" /\ ~Marked(last.v)) =>
          /\ \A i \in Snapshots("BLOCKS/USDT") :
                last.v.pools[i].address.id =
                    IF OverrideSet THEN pool.override.id ELSE pool.getPair
          /\ \A i \in DOMAIN last.v.pools : last.v.pools[i].address.id # 0
          /\ OverrideSet => ResolveUsdtPair(last.f) = pool.override
          /\ FactoryZero =>
                /\ ~Truthy(ResolveUsdtPair(last.f))
                /\ Snapshots("BLOCKS/USDT") = {}
                /\ last.v.total_liquidity_usd = DecZero
                /\ last.v.daily_volume_usd = DecZero

\* C22 as stated: the override is used when configured and the factory only
\* without it; when the factory returns the zero address price discovery
\* returns absent and liquidity stats reports no primary pool, active_pools 0
\* and totals 0, and reads no pair at the zero address.
C22_ZeroAddressNoPool ==
    last.op \in {"get_blocks_usdt_price", "get_liquidity_stats"} =>
        /\ ResolutionRules
        /\ (last.op = "get_liquidity_stats" /\ ~Marked(last.v) /\ FactoryZero) =>
              last.v.active_pools = 0

\* C22 amended: as stated, except that when the factory returns the zero
\* address active_pools counts the secondary (BLOCKS/BNB) snapshot alone: it
\* is 0 when no secondary pair is configured and at most 1 otherwise.
C22_ZeroAddressNoPrimary ==
    last.op \in {"get_blocks_usdt_price", "get_liquidity_stats"} =>
        /\ ResolutionRules
        /\ (last.op = "get_liquidity_stats" /\ ~Marked(last.v) /\ FactoryZero) =>
              /\ last.v.active_pools = Cardinality(Snapshots("BLOCKS/BNB"))
              /\ ~Truthy(pool.bnb_override) => last.v.active_pools = 0

\* liquidity stats with the factory answering the zero address and a
\* secondary pair configured and read
C22_Witness ==
    /\ last.op = "get_liquidity_stats" /\ ~Marked(last.v)
    /\ FactoryZero
    /\ Snapshots("BLOCKS/USDT") = {}
    /\ last.v.active_pools = 1
    /\ last.v.total_liquidity_usd = DecZero

(***************************************************************************)
(* The package catalog.                                                    *)
(***************************************************************************)
\* the ids 0..nextPackageId-1, or none when nextPackageId cannot be read
ScannedIds ==
    IF "nextPackageId" \in last.f THEN <<>>
    ELSE [i \in 1..catalog.nextPackageId |-> i - 1]

\* a package the catalog lists: its read succeeds, it exists, and it is
\* active when only active packages are asked for
ListedPackage(pid) ==
    /\ "getPackage" \notin last.f
    /\ catalog.pkgs[pid].readable
    /\ catalog.pkgs[pid].exists
    /\ last.active_only => catalog.pkgs[pid].active

\* the result of the last call is the listed packages among ids, in order
CatalogFrom(ids) ==
    LET want == SelectSeq(ids, ListedPackage)
    IN  /\ Len(last.v) = Len(want)
        /\ \A k \in 1..Len(want) :
              last.v[k] = [packageId |-> want[k], active |-> catalog.pkgs[want[k]].active,
                           exists |-> TRUE]

\* C23 as stated: get_all_packages reads the ids of getActivePackageIds when
\* that call succeeds and scans 0..nextPackageId-1 only when it fails; the
\* result holds the packages among those ids that exist (and are active, when
\* active_only), a package whose read fails being skipped.
C23_AccessorWhenItSucceeds ==
    last.op = "get_all_packages" =>
        /\ ~last.caught
        /\ CatalogFrom(IF "getActivePackageIds" \notin last.f
                       THEN catalog.activeIds ELSE ScannedIds)

\* C23 amended: the ids are those of getActivePackageIds when that call
\* succeeds and returns at least one id, and the scan 0..nextPackageId-1 when
\* it fails or returns none; the rest as stated.
C23_AccessorWhenNotEmpty ==
    last.op = "get_all_packages" =>
        /\ ~last.caught
        /\ CatalogFrom(IF "getActivePackageIds" \notin last.f /\ catalog.activeIds # <<>>
                       THEN catalog.activeIds ELSE ScannedIds)

\* all packages asked for from a catalog of an active, an inactive and an
\* unreadable package: the accessor's ids are read, the inactive one is not
\* listed, the unreadable one is skipped
C23_Witness ==
    /\ last.op = "get_all_packages" /\ ~last.active_only /\ last.f = {}
    /\ catalog.nextPackageId = 3
    /\ catalog.activeIds = <<0, 2>>
    /\ ~catalog.pkgs[0].readable
    /\ catalog.pkgs[1].exists /\ ~catalog.pkgs[1].active
    /\ Len(last.v) = 1 /\ last.v[1].packageId = 2

\* the fallback: the accessor fails and the scan lists an inactive package
C23_WitnessScan ==
    /\ last.op = "get_all_packages" /\ ~last.active_only
    /\ last.f = {"getActivePackageIds"}
    /\ \E k \in 1..Len(last.v) : ~last.v[k].active

(***************************************************************************)
(* Gas spend: the scanned range.                                           *)
(***************************************************************************)
\* the last block of the scan of the last call
ScanEnd == IF last.to_block = None THEN latest ELSE last.to_block

\* its first block
ScanStart ==
    Max(IF last.from_block = None THEN Max(0, ScanEnd - last.max_blocks) ELSE last.from_block,
        ScanEnd - last.max_blocks)

\* the scan covers ScanStart..ScanEnd, both included, which is at most
\* max_blocks + 1 blocks
ScanBounded ==
    /\ last.v.scannedBlocks = Max(0, ScanEnd - ScanStart + 1)
    /\ last.v.scannedBlocks <= last.max_blocks + 1
    /\ last.v.to_block = ScanEnd
    /\ \A e \in last.v.byAddress : e.txCount = Cardinality(SentBy(e.address))

\* C24: a gas-spend result comes from the blocks max(from_block, to_block -
\* max_blocks) to to_block, both included, so scannedBlocks is at most
\* max_blocks + 1; the from_block it reports is the first block scanned.
C24_ScannedRange ==
    (last.op = "get_gas_spend" /\ ~Marked(last.v)) =>
        /\ ScanBounded
        /\ last.v.scannedBlocks > 0 => last.v.from_block = ScanStart

\* the same statement without the reported from_block
C24_RangeOnly ==
    (last.op = "get_gas_spend" /\ ~Marked(last.v)) => ScanBounded

(***************************************************************************)
(* The buyer bot.                                                          *)
(***************************************************************************)
\* C25: the retry backoff is 300 to 600 seconds for the first failure after
\* a success or the start, and never exceeds 3600 seconds however many buy
\* cycles fail in a row.
C25_BackoffCapped ==
    bot.pc # "none" =>
        /\ bot.backoff <= 60 * 60
        /\ (bot.outcome \in {"failed", "exception"} /\ bot.before = 0) =>
              bot.backoff >= 300 /\ bot.backoff <= 600

\* the first backoff alone
C25_FirstBackoff ==
    (bot.pc # "none" /\ bot.outcome \in {"failed", "exception"} /\ bot.before = 0) =>
        bot.backoff >= 300 /\ bot.backoff <= 600

\* the first position of an entry in the journal of the current cycle, 0
\* when it is not there
PosOf(entry) ==
    IF \E i \in 1..Len(bot.journal) : bot.journal[i] = entry
    THEN CHOOSE i \in 1..Len(bot.journal) :
            bot.journal[i] = entry /\ \A j \in 1..(i - 1) : bot.journal[j] # entry
    ELSE 0

\* C26: in every buy cycle in which an approval is submitted, a swap is
\* submitted only after the approval's receipt was obtained; when waiting for
\* that receipt fails or times out, the cycle submits no swap.
C26_SwapAfterApproval ==
    bot.pc # "none" =>
        /\ (PosOf("approve") > 0 /\ PosOf("swap") > 0) =>
              /\ PosOf("approve") < PosOf("approve_receipt")
              /\ PosOf("approve_receipt") < PosOf("swap")
        /\ PosOf("approve_wait_failed") > 0 => PosOf("swap") = 0

\* a cycle that approved, obtained the receipt, swapped and succeeded
C26_Witness ==
    /\ bot.journal = <<"approve", "approve_receipt", "swap", "swap_receipt">>
    /\ bot.outcome = "success"

\* a cycle whose wait for the approval failed although the approval was mined
C26_WitnessTimeout ==
    /\ PosOf("approve_wait_failed") > 0
    /\ bot.approval = 1
    /\ bot.outcome = "exception"

\* the transactions submitted in the current cycle
Submitted == {i \in 1..Len(bot.journal) : bot.journal[i] \in {"approve", "swap"}}

\* C27: no approval and no swap is submitted in a cycle whose observed
\* balance is below the chosen spend: such a cycle sleeps a normal random
\* delay, leaves the backoff unchanged and starts a new cycle; nothing at all
\* is submitted when the node is not connected or the wallet or the private
\* key is missing.
C27_NoTransactionWhenShort ==
    bot.pc # "none" =>
        /\ Submitted # {} =>
              /\ bot.seen # None /\ bot.seen >= bot.usdt_spend
              /\ bot.connected /\ bot.wallet /\ bot.private_key
        /\ (bot.seen # None /\ bot.seen < bot.usdt_spend) =>
              /\ bot.journal = <<>>
              /\ bot.outcome = "skipped"
              /\ bot.slept \in random_delay_seconds
              /\ bot.backoff = bot.before
              /\ bot.pc = "loop"
        /\ (~bot.connected \/ ~bot.wallet \/ ~bot.private_key) =>
              /\ bot.journal = <<>>
              /\ bot.pc \in {"main", "exit"}

\* a cycle skipped for lack of balance while a backoff is pending
C27_Witness ==
    /\ bot.outcome = "skipped"
    /\ bot.seen < bot.usdt_spend
    /\ bot.backoff > 0

\* a bot that stopped before the loop for lack of a connection
C27_WitnessExit == bot.pc = "exit" /\ ~bot.connected

\* the positions of the bot inside its loop
LoopPcs == {"loop", "allowance", "await_approval", "swap", "await_swap", "except"}

\* C28: the loop survives every failure: a cycle that ends with a receipt
\* status other than 1 or with an exception sets backoff to
\* next_backoff_seconds of the previous backoff, sleeps that long and starts
\* another cycle; a cycle that ends with receipt status 1 resets backoff to
\* 0, so the first failure after a success uses the base backoff of 5 to 10
\* minutes.
C28_LoopSurvives ==
    bot.pc # "none" =>
        /\ bot.outcome \in {"failed", "exception"} =>
              /\ bot.backoff \in next_backoff_seconds(bot.before)
              /\ bot.slept = bot.backoff
              /\ bot.pc = "loop"
              /\ bot.before = 0 => (5 * 60 <= bot.backoff /\ bot.backoff <= 10 * 60)
        /\ (bot.pc = "loop" /\ bot.status \notin {None, 1}) =>
              bot.outcome \in {"failed", "exception"}
        /\ (bot.pc = "loop" /\ bot.status = 1 /\ bot.outcome # "exception") =>
              /\ bot.outcome = "success"
              /\ bot.backoff = 0
              /\ bot.slept \in random_delay_seconds
        /\ bot.outcome = "success" => bot.status = 1
        /\ bot.pc \in {"exit", "crashed"} => bot.outcome = "none"
        /\ bot.pc \in LoopPcs => ENABLED NextBot

\* a failure that follows a success and starts from the base backoff
C28_Witness ==
    /\ bot.outcome = "exception"
    /\ bot.before = 0
    /\ bot.balance < 1100
    /\ bot.backoff \in BaseBackoffs

\* a second failure in a row, backing off from the first one's value
C28_WitnessRepeated ==
    /\ bot.outcome = "failed"
    /\ bot.before \in BaseBackoffs
    /\ bot.backoff > bot.before

(***************************************************************************)
(* The admin application: crediting payment transactions and resetting     *)
(* passwords.  db holds the two stores and the clock; last holds the       *)
(* answer of the last request.                                             *)
(***************************************************************************)

\* bound on the clock, in half hours
MaxTime == 4

\* everything but the stores and the last answer
others == <<logs, latest, tokenDec, catalog, pool, blocks, chain, contracts, prev, bot>>

TxIds == {"t1", "t2"}

\* the transaction ids a form can carry: the stored ones, one that is not
\* stored and the empty field
FormIds == TxIds \cup {"t9", ""}

Reasons == {"", "refund"}

TxStatuses == {"failed", "pending", "completed"}

TxRow(status, amountKes) ==
    [status |-> status, amountKes |-> amountKes, completedAt |-> None, errorMessage |-> None]

\* the rows a payment can have before any credit: a completed payment has
\* its completion time
StoredRows ==
    {Absent} \cup {IF status = "completed" THEN [TxRow(status, 100) EXCEPT !.completedAt = 0]
                   ELSE TxRow(status, 100) : status \in TxStatuses}

\* the steps of credit_transaction that can fail
CreditSites == {"connect", "select", "update", "commit"}

InitCredit ==
    /\ logs = {} /\ latest = 0 /\ tokenDec = <<>> /\ catalog = NoCatalog
    /\ pool = <<>> /\ blocks = <<>> /\ chain = <<>> /\ contracts = <<>>
    /\ last = NoCall /\ prev = NoCall /\ bot = NoBot
    /\ \E table \in [TxIds -> StoredRows] :
          db = [users |-> <<>>, transactions |-> table, now |-> 0,
                initial |-> table, credits |-> [id \in TxIds |-> 0],
                issued |-> 0, history |-> <<>>]

\* the clock of datetime.utcnow()
Tick ==
    /\ db.now < MaxTime
    /\ db' = [db EXCEPT !.now = @ + 1]
    /\ UNCHANGED <<last, others>>

\* a slip: every payment that is not completed can be credited
CreditableUnlessCompleted(transaction) == transaction.status # "completed"

\* line 393: only a failed payment is credited
Creditable(transaction) == transaction.status = "failed"

\* lines 397-404: the UPDATE of the credited row
Credited(transaction, now, reason) ==
    [transaction EXCEPT !.status = "completed", !.completedAt = now,
                        !.errorMessage = <<"Credited by admin", reason>>]

\* lines 370-415: credit_transaction.  An unauthenticated request is sent
\* to the login page, an invalid form is shown again; a failure of
\* any database step is caught and nothing is committed.  initial and
\* credits are history: the table at the start and the number of credits
\* each payment received.
CreditTransaction ==
    /\ \E authenticated \in BOOLEAN, transaction_id \in FormIds, reason \in Reasons,
          f \in {{}} \cup {{site} : site \in CreditSites} :
          LET transaction == IF transaction_id \in TxIds THEN db.transactions[transaction_id]
                             ELSE Absent
              response ==
                  IF ~authenticated THEN "login"
                  ELSE IF transaction_id = "" \/ reason = "" THEN "form"
                  ELSE IF "connect" \in f THEN "connection_error"
                  ELSE IF "select" \in f THEN "error"
                  ELSE IF transaction = Absent THEN "not_found"
                  ELSE IF ~Creditable(transaction) THEN "only_failed"
                  ELSE IF "update" \in f \/ "commit" \in f THEN "error"
                  ELSE "credited"
          IN  /\ last' = [op |-> "credit_transaction", transaction_id |-> transaction_id,
                          reason |-> reason, f |-> f, response |-> response]
              /\ db' = IF response = "credited"
                       THEN [db EXCEPT !.transactions[transaction_id] =
                                           Credited(transaction, db.now, reason),
                                       !.credits[transaction_id] = @ + 1]
                       ELSE db
    /\ UNCHANGED others

NextCredit == CreditTransaction \/ Tick

SpecCredit == InitCredit /\ [][NextCredit]_vars

\* C29: crediting changes a payment's status only from failed to completed:
\* a payment that does not exist or is not failed is left as stored, after
\* any sequence of credit requests no payment that was not failed has been
\* altered, and a second credit of the same payment is rejected.
C29_CreditOnlyFailed ==
    db # NoDb =>
        /\ \A id \in TxIds :
              LET was == db.initial[id]
                  is  == db.transactions[id]
              IN  /\ db.credits[id] <= 1
                  /\ db.credits[id] = 0 => is = was
                  /\ db.credits[id] = 1 =>
                        /\ was # Absent /\ was.status = "failed"
                        /\ is.status = "completed"
                        /\ is.amountKes = was.amountKes
        /\ (last.op = "credit_transaction" /\ last.transaction_id \notin TxIds) =>
              last.response # "credited"

\* a credited payment whose second credit request was just rejected
C29_Witness ==
    /\ db # NoDb
    /\ last.op = "credit_transaction"
    /\ last.response = "only_failed"
    /\ last.transaction_id \in TxIds
    /\ db.credits[last.transaction_id] = 1

(***************************************************************************)
(* Password reset.                                                         *)
(***************************************************************************)

\* bound on the number of reset tokens generated
MaxTokens == 2

\* timedelta(hours=1) on the half-hour clock
Hour == 2

Emails == {"ann@coop", "ben@coop"}

\* the addresses a form can carry: the accounts, an unknown one, an empty field
FormEmails == Emails \cup {"eve@coop", ""}

\* the tokens a form can carry: the generated ones, a guess (0) and the
\* empty field (None)
FormTokens == (0..MaxTokens) \cup {None}

\* the new passwords a form can carry; the empty one fails validation
FormPasswords == {"", "password1"}

\* werkzeug's generate_password_hash
generate_password_hash(password) == <<"hash", password>>

InitReset ==
    /\ logs = {} /\ latest = 0 /\ tokenDec = <<>> /\ catalog = NoCatalog
    /\ pool = <<>> /\ blocks = <<>> /\ chain = <<>> /\ contracts = <<>>
    /\ last = NoCall /\ prev = NoCall /\ bot = NoBot
    /\ db = [users |-> [email \in Emails |->
                          [password_hash |-> generate_password_hash("password0"),
                           reset_token |-> None, reset_token_expires |-> None]],
             transactions |-> [id \in TxIds |-> Absent], now |-> 0,
             initial |-> [id \in TxIds |-> Absent], credits |-> [id \in TxIds |-> 0],
             issued |-> 0, history |-> <<>>]

\* line 243: AdminUser.query.filter_by(email=...), the rows found
UsersByEmail(email) == {user \in Emails : user = email}

\* line 263: AdminUser.query.filter_by(reset_token=...), the rows found; a
\* NULL column equals no value
UsersByToken(token) ==
    {user \in Emails : db.users[user].reset_token # None /\ db.users[user].reset_token = token}

\* .first()
First(rows) == CHOOSE row \in rows : TRUE

\* lines 237-255: forgot_password.  _generate_reset_token draws 32 random
\* bytes: the token is one never generated before, the next number.
\* history records every token stored and every reset done.
ForgotPassword ==
    /\ db.issued < MaxTokens
    /\ \E authenticated \in BOOLEAN, email \in FormEmails, commit_ok \in BOOLEAN :
          LET found == UsersByEmail(email)
              user == First(found)
              token == db.issued + 1
              response ==
                  IF authenticated THEN "dashboard"
                  ELSE IF email = "" THEN "form"
                  ELSE IF found = {} THEN "login"
                  ELSE IF ~commit_ok THEN "error"
                  ELSE "token"
          IN  /\ last' = [op |-> "forgot_password", email |-> email, response |-> response,
                          token |-> IF response = "token" THEN token ELSE None]
              /\ db' = IF response = "token"
                       THEN [db EXCEPT !.users[user].reset_token = token,
                                       !.users[user].reset_token_expires = db.now + Hour,
                                       !.issued = token,
                                       !.history = Append(@, [kind |-> "issue", token |-> token,
                                                              email |-> user, at |-> db.now])]
                       ELSE db
    /\ UNCHANGED others

\* a slip: a token never expires
ExpiredNever(expires, now) == FALSE

\* line 264: the stored expiry has passed
Expired(expires, now) == expires < now

\* a slip: the token is kept after the reset
AfterResetKeepingToken(user, password) ==
    [user EXCEPT !.password_hash = generate_password_hash(password)]

\* lines 267-269: the new password is stored and the token cleared
AfterReset(user, password) ==
    [user EXCEPT !.password_hash = generate_password_hash(password),
                 !.reset_token = None, !.reset_token_expires = None]

\* lines 257-273: reset_password
ResetPassword ==
    /\ \E authenticated \in BOOLEAN, token \in FormTokens, password \in FormPasswords,
          commit_ok \in BOOLEAN :
          LET found == UsersByToken(token)
              user == First(found)
              response ==
                  IF authenticated THEN "dashboard"
                  ELSE IF token = None \/ password = "" THEN "form"
                  ELSE IF found = {} THEN "invalid"
                  ELSE IF db.users[user].reset_token_expires = None THEN "invalid"
                  ELSE IF Expired(db.users[user].reset_token_expires, db.now) THEN "invalid"
                  ELSE IF ~commit_ok THEN "error"
                  ELSE "reset"
          IN  /\ last' = [op |-> "reset_password", token |-> token, response |-> response,
                          email |-> IF response = "reset" THEN user ELSE ""]
              /\ db' = IF response = "reset"
                       THEN [db EXCEPT !.users[user] = AfterReset(@, password),
                                       !.history = Append(@, [kind |-> "reset", token |-> token,
                                                              email |-> user, at |-> db.now])]
                       ELSE db
    /\ UNCHANGED others

NextReset == ForgotPassword \/ ResetPassword \/ Tick

SpecReset == InitReset /\ [][NextReset]_vars

\* the position in the history at which the token of reset i was stored, 0
\* when it never was
IssueOf(i) ==
    LET h == db.history
    IN  IF \E j \in 1..(i - 1) : h[j].kind = "issue" /\ h[j].token = h[i].token
        THEN CHOOSE j \in 1..(i - 1) : h[j].kind = "issue" /\ h[j].token = h[i].token
        ELSE 0

\* C30: a reset token is single-use and time-limited: a reset succeeds only
\* with the token stored for a user, at most one hour after it was issued;
\* the reset clears token and expiry, so no token resets a password twice,
\* and a newer token of the same user invalidates the older one.
C30_SingleUseToken ==
    db # NoDb =>
        LET h == db.history
        IN  /\ \A i \in 1..Len(h) :
                  h[i].kind = "reset" =>
                      /\ IssueOf(i) > 0
                      /\ h[IssueOf(i)].email = h[i].email
                      /\ h[i].at <= h[IssueOf(i)].at + Hour
                      /\ \A k \in (IssueOf(i) + 1)..(i - 1) :
                            /\ ~(h[k].kind = "reset" /\ h[k].token = h[i].token)
                            /\ ~(h[k].kind = "issue" /\ h[k].email = h[i].email)
            /\ (last.op = "reset_password" /\ last.response = "reset") =>
                  /\ db.users[last.email].reset_token = None
                  /\ db.users[last.email].reset_token_expires = None
                  /\ db.users[last.email].password_hash # generate_password_hash("password0")
            /\ \A email \in Emails :
                  db.users[email].reset_token # None =>
                      db.users[email].reset_token_expires # None

\* a token that reset a password and was then refused
C30_Witness ==
    /\ db # NoDb
    /\ last.op = "reset_password"
    /\ last.response = "invalid"
    /\ \E i \in 1..Len(db.history) :
          db.history[i].kind = "reset" /\ db.history[i].token = last.token

\* a token refused because its user was given a newer one
C30_WitnessSuperseded ==
    /\ db # NoDb
    /\ last.op = "reset_password"
    /\ last.response = "invalid"
    /\ \E i, k \in 1..Len(db.history) :
          /\ i < k
          /\ db.history[i].kind = "issue" /\ db.history[i].token = last.token
          /\ db.history[k].kind = "issue" /\ db.history[k].email = db.history[i].email
          /\ \A j \in 1..Len(db.history) : db.history[j].kind = "reset" => db.history[j].token # last.token
          /\ db.now <= db.history[i].at + Hour

\* a reset at the very end of the hour
C30_WitnessLastMoment ==
    /\ db # NoDb
    /\ last.op = "reset_password"
    /\ last.response = "reset"
    /\ \E i \in 1..Len(db.history) :
          /\ db.history[i].kind = "issue"
          /\ db.history[i].token = last.token
          /\ db.now = db.history[i].at + Hour

====
